---- MODULE Spec2Model ----
(***************************************************************************)
(* FlashAI/utils.py: the text-to-flashcard pipeline.                       *)
(*                                                                         *)
(* A Python str is modelled as a sequence of one-character strings, so     *)
(* that slicing, stripping, searching and the regular expressions of the   *)
(* source are computed character by character.  A Python None is NoneVal.  *)
(***************************************************************************)
EXTENDS Integers, Sequences, FiniteSets, TLC

VARIABLES
    call,           \* unit specifications: the arguments of the function under test
    ret,            \* unit specifications: <<>> before the call, <<value>> after it
    pc,             \* generate_flashcards_with_ai: position in the function body
    text,           \* generate_flashcards_with_ai: the argument
    api_key,        \* whether BYTEZ_API_KEY resolves to a truthy value (utils.py:303)
    Bytez,          \* whether the bytez import succeeded (utils.py:28-31)
    output,         \* local output: what model.run returned (utils.py:330)
    cleaned_text,   \* local cleaned_text
    content,        \* local content
    json_string,    \* local json_string
    flashcards,     \* local flashcards
    valid,          \* local valid
    result,         \* the returned list
    ret_line,       \* the source line of the return statement taken (0: not returned)
    run_calls       \* number of model.run invocations so far

vars == <<call, ret, pc, text, api_key, Bytez, output, cleaned_text, content,
          json_string, flashcards, valid, result, ret_line, run_calls>>

genVars == <<pc, text, api_key, Bytez, output, cleaned_text, content,
             json_string, flashcards, valid, result, ret_line, run_calls>>

-----------------------------------------------------------------------------
(* Characters and Python str primitives *)

NoneVal == <<"<None>">>
\* the character U+0060 and the byte order mark U+FEFF, each one character
Backtick == "<U+0060>"
BOM == "<U+FEFF>"

UpperChars == <<"A","B","C","D","E","F","G","H","I","J","K","L","M",
                "N","O","P","Q","R","S","T","U","V","W","X","Y","Z">>
LowerChars == <<"a","b","c","d","e","f","g","h","i","j","k","l","m",
                "n","o","p","q","r","s","t","u","v","w","x","y","z">>
UpperSet == {UpperChars[i] : i \in 1..26}
LowerSet == {LowerChars[i] : i \in 1..26}
DigitSet == {"0","1","2","3","4","5","6","7","8","9"}
LetterSet == UpperSet \cup LowerSet
\* \w of the re module (ASCII part)
WordSet == LetterSet \cup DigitSet \cup {"_"}
\* \s of the re module and the default set of str.strip()
SpaceSet == {" ", "\t", "\n", "\r", "\f"}

LowerMap == [c \in UpperSet |-> LowerChars[CHOOSE i \in 1..26 : UpperChars[i] = c]]
UpperMap == [c \in LowerSet |-> UpperChars[CHOOSE i \in 1..26 : LowerChars[i] = c]]

LowerChar(c) == IF c \in UpperSet THEN LowerMap[c] ELSE c
UpperChar(c) == IF c \in LowerSet THEN UpperMap[c] ELSE c

\* str.lower(), str.upper(), str.capitalize()
lower(s) == [i \in 1..Len(s) |-> LowerChar(s[i])]
upper(s) == [i \in 1..Len(s) |-> UpperChar(s[i])]
capitalize(s) == [i \in 1..Len(s) |-> IF i = 1 THEN UpperChar(s[i]) ELSE LowerChar(s[i])]

\* s[a:b] with 0-based Python bounds 0 <= a, b (clamped to the length)
Slice(s, a, b) ==
    LET hi == IF b > Len(s) THEN Len(s) ELSE b
    IN  IF a >= hi THEN <<>> ELSE SubSeq(s, a + 1, hi)

\* s[:n] and s[n:]
Prefix(s, n) == Slice(s, 0, n)
Suffix(s, n) == Slice(s, n, Len(s))

\* str.strip(chars), str.lstrip(chars)
StripSet(s, cs) ==
    LET keep == {i \in 1..Len(s) : s[i] \notin cs}
    IN  IF keep = {} THEN <<>>
        ELSE SubSeq(s, CHOOSE i \in keep : \A j \in keep : i <= j,
                       CHOOSE i \in keep : \A j \in keep : i >= j)
LStripSet(s, cs) ==
    LET keep == {i \in 1..Len(s) : s[i] \notin cs}
    IN  IF keep = {} THEN <<>>
        ELSE SubSeq(s, CHOOSE i \in keep : \A j \in keep : i <= j, Len(s))
strip(s) == StripSet(s, SpaceSet)

\* s.startswith(p)
startswith(s, p) == Len(p) <= Len(s) /\ SubSeq(s, 1, Len(p)) = p
endswith(s, p) == Len(p) <= Len(s) /\ SubSeq(s, Len(s) - Len(p) + 1, Len(s)) = p

\* whether sub occurs at 1-based position i of s
OccursAt(s, sub, i) == i + Len(sub) - 1 <= Len(s) /\ SubSeq(s, i, i + Len(sub) - 1) = sub

\* sub in s
Contains(s, sub) == \E i \in 1..(Len(s) + 1) : OccursAt(s, sub, i)

\* s.find(c) and s.rfind(c) for a one-character c, as 1-based positions (0: absent)
FindChar(s, c) ==
    LET hits == {i \in 1..Len(s) : s[i] = c}
    IN  IF hits = {} THEN 0 ELSE CHOOSE i \in hits : \A j \in hits : i <= j
RFindChar(s, c) ==
    LET hits == {i \in 1..Len(s) : s[i] = c}
    IN  IF hits = {} THEN 0 ELSE CHOOSE i \in hits : \A j \in hits : i >= j

\* s.count(c)
CountChar(s, c) == Cardinality({i \in 1..Len(s) : s[i] = c})

\* c * n
Repeat(c, n) == [i \in 1..n |-> c]

\* the concatenation of a sequence of strings
RECURSIVE Concat(_)
Concat(ss) == IF ss = <<>> THEN <<>> ELSE Head(ss) \o Concat(Tail(ss))

\* sep.join(ss)
RECURSIVE Join(_, _)
Join(sep, ss) ==
    IF ss = <<>> THEN <<>>
    ELSE IF Len(ss) = 1 THEN ss[1]
    ELSE ss[1] \o sep \o Join(sep, Tail(ss))

\* all sequences over atoms of length 0..n
SeqsUpTo(atoms, n) == UNION {[1..k -> atoms] : k \in 0..n}

\* the element of a one-element set: Only({e(x) : x \in {v}}) is e of the
\* value of v, v being evaluated once
Only(S) == CHOOSE y \in S : TRUE

-----------------------------------------------------------------------------
(* clean_text, utils.py:34-36 *)

\* re.sub(r'\s+', ' ', text): every maximal run of whitespace becomes one space
CollapseSpaces(s) ==
    LET First(i) == s[i] \notin SpaceSet \/ i = 1 \/ s[i - 1] \notin SpaceSet
        idx == SelectSeq([i \in 1..Len(s) |-> i], First)
    IN  [n \in 1..Len(idx) |-> IF s[idx[n]] \in SpaceSet THEN " " ELSE s[idx[n]]]

clean_text(t) == strip(CollapseSpaces(t))

-----------------------------------------------------------------------------
(* assign_options_random, utils.py:151-173 *)

OptionPad == <<"O","p","t","i","o","n">>
Letters == <<"A", "B", "C", "D">>

\* the filter of line 152: w and str(w).strip()
WrongKept(w) == w # <<>> /\ strip(w) # <<>>

\* a faulty pool: the wrongs are not filtered
WrongPoolUnfiltered(wrongs) == [i \in 1..3 |-> IF i <= Len(wrongs) THEN wrongs[i] ELSE OptionPad]

\* lines 154-157: the pool of exactly three wrong answers
RECURSIVE PadPool(_)
PadPool(pool) == IF Len(pool) < 3 THEN PadPool(Append(pool, OptionPad)) ELSE pool

WrongPool(wrongs) == Prefix(PadPool(SelectSeq(wrongs, WrongKept)), 3)

\* lines 158-165: slot correct_idx (0-based) takes the correct answer, the
\* other slots take the pool in order
FillSlots(correct_, pool, correct_idx) ==
    [i \in 1..4 |->
        IF i - 1 = correct_idx THEN correct_
        ELSE pool[IF i - 1 < correct_idx THEN i ELSE i - 1]]

\* correct_idx is the value random.randint(0, 3) returned
assign_options_random(correct_, wrongs, correct_idx) ==
    LET slots == FillSlots(correct_, WrongPool(wrongs), correct_idx)
    IN  [option_a |-> slots[1], option_b |-> slots[2],
         option_c |-> slots[3], option_d |-> slots[4],
         correct_option |-> <<Letters[correct_idx + 1]>>]

-----------------------------------------------------------------------------
(* The regular expressions of the re module, as far as utils.py uses them.  *)
(* A pattern is a sequence of nodes; Match follows the backtracking order   *)
(* of re: alternatives left to right, a greedy repeat longest first, a lazy *)
(* repeat shortest first.                                                   *)

Node(k, set, neg, lo, hi, lazy, alts) ==
    [k |-> k, set |-> set, neg |-> neg, lo |-> lo, hi |-> hi, lazy |-> lazy, alts |-> alts]
\* [set]{lo,hi}; hi = -1 is no upper limit
Cls(set, lo, hi) == Node("cls", set, FALSE, lo, hi, FALSE, <<>>)
\* [^set]{lo,hi}
NCls(set, lo, hi) == Node("cls", set, TRUE, lo, hi, FALSE, <<>>)
\* the lazy form {lo,hi}? of a repeat
Lazy(nd) == [nd EXCEPT !.lazy = TRUE]
\* (?:a|b|...), each alternative a pattern
Alt(alts) == Node("alt", {}, FALSE, 0, 0, FALSE, alts)
\* a group boundary: the position is recorded
Mark == Node("mark", {}, FALSE, 0, 0, FALSE, <<>>)
\* $
EndAnchor == Node("end", {}, FALSE, 0, 0, FALSE, <<>>)
\* \b
WordBoundary == Node("wb", {}, FALSE, 0, 0, FALSE, <<>>)
\* a literal, case-sensitive or under re.I
Lit(w) == [i \in 1..Len(w) |-> Cls({w[i]}, 1, 1)]
LitI(w) == [i \in 1..Len(w) |-> Cls({LowerChar(w[i]), UpperChar(w[i])}, 1, 1)]
\* \s* and \s+ and .+
Spaces0 == Cls(SpaceSet, 0, -1)
Spaces1 == Cls(SpaceSet, 1, -1)
Dot1 == NCls({"\n"}, 1, -1)

NoMatch == [ok |-> FALSE, caps |-> <<>>, end |-> 0]

InCls(nd, c) == (c \in nd.set) # nd.neg

IsBoundary(s, i) ==
    LET before == i > 1 /\ i - 1 <= Len(s) /\ s[i - 1] \in WordSet
        after == i >= 1 /\ i <= Len(s) /\ s[i] \in WordSet
    IN  before # after

AtEnd(s, i) == i = Len(s) + 1 \/ (i = Len(s) /\ s[i] = "\n")

\* how many characters from position i on are in the class, at most nd.hi
RunLen(s, nd, i) ==
    LET avail == Len(s) - i + 1
        cap == IF nd.hi >= 0 /\ nd.hi < avail THEN nd.hi ELSE avail
        stops == {n \in 0..(cap - 1) : ~InCls(nd, s[i + n])}
    IN  IF stops = {} THEN (IF cap < 0 THEN 0 ELSE cap)
        ELSE CHOOSE n \in stops : \A m \in stops : n <= m

RECURSIVE MatchFrom(_, _, _, _, _)

\* whether the node nd can start at position i: a cheap test that spares
\* MatchFrom the counts of a repeat after which the pattern cannot go on
CanStart(s, nd, i) ==
    CASE nd.k = "cls" -> nd.lo = 0 \/ (i <= Len(s) /\ InCls(nd, s[i]))
      [] nd.k = "end" -> AtEnd(s, i)
      [] nd.k = "wb" -> IsBoundary(s, i)
      [] OTHER -> TRUE

\* a repeat of lo..run characters before node p of the pattern: the first
\* count, in the order of the repeat (greedy: longest first, lazy: shortest
\* first), with which the rest of the pattern matches
TryCount(s, nodes, p, i, caps, lo, run, lazy) ==
    Only({ LET good == {n \in lo..run : tried[n].ok}
           IN  IF good = {} THEN NoMatch
               ELSE tried[IF lazy THEN CHOOSE n \in good : \A m \in good : n <= m
                          ELSE CHOOSE n \in good : \A m \in good : n >= m]
         : tried \in {[n \in lo..run |->
                         IF p > Len(nodes) \/ CanStart(s, nodes[p], i + n)
                         THEN MatchFrom(s, nodes, p, i + n, caps) ELSE NoMatch]} })

RECURSIVE TryAlts(_, _, _, _, _)

\* the nodes p.. of the pattern matched at position i of s: [ok, caps, end],
\* caps the positions of the marks passed and end the position after the match
MatchFrom(s, nodes, p, i, caps) ==
    IF p > Len(nodes) THEN [ok |-> TRUE, caps |-> caps, end |-> i]
    ELSE LET nd == nodes[p]
         IN  CASE nd.k = "mark" -> MatchFrom(s, nodes, p + 1, i, Append(caps, i))
               [] nd.k = "end" ->
                    IF AtEnd(s, i) THEN MatchFrom(s, nodes, p + 1, i, caps) ELSE NoMatch
               [] nd.k = "wb" ->
                    IF IsBoundary(s, i) THEN MatchFrom(s, nodes, p + 1, i, caps) ELSE NoMatch
               [] nd.k = "alt" -> TryAlts(s, nd.alts, SubSeq(nodes, p + 1, Len(nodes)), i, caps)
               [] nd.k = "cls" ->
                    Only({ IF run < nd.lo THEN NoMatch
                           ELSE IF nd.lo = nd.hi
                                THEN MatchFrom(s, nodes, p + 1, i + nd.lo, caps)
                           ELSE TryCount(s, nodes, p + 1, i, caps, nd.lo, run, nd.lazy)
                         : run \in {RunLen(s, nd, i)} })

\* the alternatives of a group, left to right
TryAlts(s, alts, rest, i, caps) ==
    IF alts = <<>> THEN NoMatch
    ELSE Only({ IF r.ok THEN r ELSE TryAlts(s, Tail(alts), rest, i, caps)
              : r \in {MatchFrom(s, Head(alts) \o rest, 1, i, caps)} })

Match(s, nodes, i, caps) ==
    IF nodes # <<>> /\ ~CanStart(s, nodes[1], i) THEN NoMatch
    ELSE MatchFrom(s, nodes, 1, i, caps)

\* re.match(pattern, s)
ReMatch(nodes, s) == Match(s, nodes, 1, <<>>)

\* the matches among found (position -> match) that a scan from position i
\* on takes, left to right and without overlap, each <<start, end>> (end
\* exclusive)
RECURSIVE TakeSpans(_, _, _)
TakeSpans(found, starts, i) ==
    LET later == {j \in starts : j >= i}
        j0 == CHOOSE j \in later : \A k \in later : j <= k
        e0 == found[j0].end
    IN  IF later = {} THEN <<>>
        ELSE <<<<j0, e0>>>> \o TakeSpans(found, starts, IF e0 > j0 THEN e0 ELSE j0 + 1)

\* the non-overlapping matches of re.findall / re.split / re.search from
\* position i on
FindSpans(nodes, s, i) ==
    Only({ TakeSpans(found, {j \in i..(Len(s) + 1) : found[j].ok}, i)
         : found \in {[j \in i..(Len(s) + 1) |-> Match(s, nodes, j, <<>>)]} })

\* re.findall(pattern, s) for a pattern without groups
FindAll(nodes, s) ==
    Only({ [n \in 1..Len(spans) |-> SubSeq(s, spans[n][1], spans[n][2] - 1)]
         : spans \in {FindSpans(nodes, s, 1)} })

\* re.split(pattern, s) for a pattern without groups that matches no empty string
ReSplit(nodes, s) ==
    Only({ [n \in 1..(Len(spans) + 1) |->
               SubSeq(s, IF n = 1 THEN 1 ELSE spans[n - 1][2],
                         IF n > Len(spans) THEN Len(s) ELSE spans[n][1] - 1)]
         : spans \in {FindSpans(nodes, s, 1)} })

\* re.search(pattern, s) is not None
ReSearch(nodes, s) == FindSpans(nodes, s, 1) # <<>>

-----------------------------------------------------------------------------
(* _fallback_flashcards, utils.py:175-290 *)

SubjectCapMax == 60
SubjectMin == 2
SubjectMax == 80
DeriveMinLen == 10
DeriveQuestionMax == 120
DeriveAnswerMax == 300
CorrectPhraseMax == 60
SentencePoolMax == 6
GenericPoolMax == 6
TopicWords == 5
\* the default of the parameter limit, line 175
DefaultLimit == 3

\* re.sub(pattern, '', s) for a pattern anchored with ^
ReSubPrefix(nodes, s) ==
    Only({ IF r.ok THEN SubSeq(s, r.end, Len(s)) ELSE s : r \in {ReMatch(nodes, s)} })

\* line 184: ^(?:In|On|At|During|Within|From)\s+[^,]+,\s*  (re.I)
LeadingClausePattern ==
    <<Alt(<<LitI(<<"I","n">>), LitI(<<"O","n">>), LitI(<<"A","t">>), LitI(<<"D","u","r","i","n","g">>),
            LitI(<<"W","i","t","h","i","n">>), LitI(<<"F","r","o","m">>)>>),
      Spaces1, NCls({","}, 1, -1), Cls({","}, 1, 1), Spaces0>>

\* line 185: ^(?:an?|the)\s+  (re.I)
LeadingArticlePattern ==
    <<Alt(<<LitI(<<"a">>) \o <<Cls({"n", "N"}, 0, 1)>>, LitI(<<"t","h","e">>)>>), Spaces1>>

\* lines 182-188
normalize_subject(subj) ==
    Only({ IF Len(s3) <= SubjectCapMax THEN upper(Prefix(s3, 1)) \o Suffix(s3, 1) ELSE s3
         : s3 \in {ReSubPrefix(LeadingArticlePattern,
                      ReSubPrefix(LeadingClausePattern,
                          StripSet(strip(subj), {" ", ".", ",", ":", ";", "\t", "\n", "\r"})))} })

\* (?:In\s+[^,]+,\s*)?  and  (?:The\s+|An\s+|A\s+)?  (re.I)
OptInClause ==
    Alt(<<LitI(<<"I","n">>) \o <<Spaces1, NCls({","}, 1, -1), Cls({","}, 1, 1), Spaces0>>, <<>>>>)
OptArticle ==
    Alt(<<LitI(<<"T","h","e">>) \o <<Spaces1>>, LitI(<<"A","n">>) \o <<Spaces1>>,
          LitI(<<"A">>) \o <<Spaces1>>, <<>>>>)
\* ([^.!?]{2,80}?)
LazySubject == <<Mark, Lazy(NCls({".", "!", "?"}, SubjectMin, SubjectMax)), Mark>>
\* (.+)$
RestToEnd == <<Mark, Dot1, Mark, EndAnchor>>

\* line 194: ^\s*([^:\-]{2,80})\s*[:\-]\s+(.+)$
ColonPattern ==
    <<Spaces0, Mark, NCls({":", "-"}, SubjectMin, SubjectMax), Mark, Spaces0,
      Cls({":", "-"}, 1, 1), Spaces1>> \o RestToEnd

\* lines 204 and 211: ^\s*(?:In\s+[^,]+,\s*)?(?:The\s+|An\s+|A\s+)?([^.!?]{2,80}?)\s+is\s+(.+)$
CopulaHead == <<Spaces0, OptInClause, OptArticle>> \o LazySubject \o <<Spaces1>>
CopulaIsPattern == CopulaHead \o LitI(<<"i","s">>) \o <<Spaces1>> \o RestToEnd
CopulaArePattern == CopulaHead \o LitI(<<"a","r","e">>) \o <<Spaces1>> \o RestToEnd

\* line 219: ^\s*(?:The\s+|An\s+|A\s+)?([^.!?]{2,80}?)\s+(means|refers to|stands for|is defined as)\s+(.+)$
DefVerbPattern ==
    <<Spaces0, OptArticle>> \o LazySubject
        \o <<Spaces1, Mark,
             Alt(<<LitI(<<"m","e","a","n","s">>), LitI(<<"r","e","f","e","r","s"," ","t","o">>), LitI(<<"s","t","a","n","d","s"," ","f","o","r">>),
                   LitI(<<"i","s"," ","d","e","f","i","n","e","d"," ","a","s">>)>>),
             Mark, Spaces1>> \o RestToEnd

\* line 199: \b(s|S)\b$  and  \band\b
BareSPattern == <<WordBoundary, Cls({"s", "S"}, 1, 1), WordBoundary, EndAnchor>>
AndPattern == <<WordBoundary>> \o Lit(<<"a","n","d">>) \o <<WordBoundary>>

\* line 231: [A-Za-z0-9]+(?:'[A-Za-z0-9]+)?
TopicWordPattern ==
    <<Cls(LetterSet \cup DigitSet, 1, -1),
      Alt(<<<<Cls({"'"}, 1, 1), Cls(LetterSet \cup DigitSet, 1, -1)>>, <<>>>>)>>

\* group n of a match
Group(s, r, n) == SubSeq(s, r.caps[2 * n - 1], r.caps[2 * n] - 1)

QA(q, a) == <<Prefix(q, DeriveQuestionMax), Prefix(a, DeriveAnswerMax)>>

\* a faulty last rule: no pair for a sentence without a word
derive_topic_wordless(s) ==
    IF FindAll(TopicWordPattern, s) = <<>> THEN NoneVal
    ELSE Only({ QA(<<"W","h","a","t"," ">> \o (IF endswith(topic, <<"s">>) THEN <<"a","r","e">> ELSE <<"i","s">>)
                    \o <<" ">> \o topic \o <<"?">>, s)
              : topic \in {normalize_subject(Join(<<" ">>,
                                Prefix(FindAll(TopicWordPattern, s), TopicWords)))} })

\* lines 231-237: the rule that always applies
derive_topic(s) ==
    Only({ QA(<<"W","h","a","t"," ">> \o (IF endswith(topic, <<"s">>) THEN <<"a","r","e">> ELSE <<"i","s">>)
                \o <<" ">> \o topic \o <<"?">>, s)
         : topic \in {normalize_subject(IF words # <<>>
                                        THEN Join(<<" ">>, Prefix(words, TopicWords))
                                        ELSE <<"t","h","i","s"," ","t","o","p","i","c">>)
                        : words \in {FindAll(TopicWordPattern, s)}} })

\* lines 219-229
derive_defverb(s) ==
    Only({ IF ~m.ok THEN derive_topic(s)
           ELSE Only({ LET verb == lower(Group(s, m, 2))
                           rest == Group(s, m, 3)
                       IN  IF verb = <<"m","e","a","n","s">> \/ verb = <<"r","e","f","e","r","s"," ","t","o">>
                                \/ verb = <<"i","s"," ","d","e","f","i","n","e","d"," ","a","s">>
                           THEN QA(<<"W","h","a","t"," ","i","s"," ">> \o subj \o <<"?">>,
                                   subj \o <<" ">> \o verb \o <<" ">> \o rest)
                           ELSE QA(<<"W","h","a","t"," ","d","o","e","s"," ">> \o subj \o <<" ","s","t","a","n","d"," ","f","o","r","?">>,
                                   subj \o <<" ","s","t","a","n","d","s"," ","f","o","r"," ">> \o rest)
                     : subj \in {normalize_subject(Group(s, m, 1))} })
         : m \in {ReMatch(DefVerbPattern, s)} })

\* lines 211-217
derive_are(s) ==
    Only({ IF ~m.ok THEN derive_defverb(s)
           ELSE Only({ QA(<<"W","h","a","t"," ","a","r","e"," ">> \o subj \o <<"?">>,
                          subj \o <<" ","a","r","e"," ">> \o Group(s, m, 2))
                     : subj \in {normalize_subject(Group(s, m, 1))} })
         : m \in {ReMatch(CopulaArePattern, s)} })

\* lines 204-210
derive_is(s) ==
    Only({ IF ~m.ok THEN derive_are(s)
           ELSE Only({ QA(<<"W","h","a","t"," ","i","s"," ">> \o subj \o <<"?">>,
                          subj \o <<" ","i","s"," ">> \o Group(s, m, 2))
                     : subj \in {normalize_subject(Group(s, m, 1))} })
         : m \in {ReMatch(CopulaIsPattern, s)} })

\* line 199
plural_verb(subj) ==
    IF ReSearch(BareSPattern, subj) \/ ReSearch(AndPattern, subj)
          \/ endswith(lower(subj), <<"s">>)
    THEN <<"a","r","e">> ELSE <<"i","s">>

\* lines 194-202
derive_colon(s) ==
    Only({ IF ~m.ok THEN derive_is(s)
           ELSE Only({ IF subj = <<>> THEN derive_is(s)
                       ELSE Only({ QA(<<"W","h","a","t"," ">> \o qverb \o <<" ">> \o subj \o <<"?">>,
                                      strip(subj \o <<" ">> \o qverb \o <<" ">> \o Group(s, m, 2)))
                                 : qverb \in {plural_verb(subj)} })
                     : subj \in {normalize_subject(Group(s, m, 1))} })
         : m \in {ReMatch(ColonPattern, s)} })

\* lines 190-237: NoneVal or <<question, answer>>
derive_qa(sentence) ==
    Only({ IF Len(s) < DeriveMinLen THEN NoneVal ELSE derive_colon(s)
         : s \in {strip(sentence)} })

\* line 239: [.!?]\s+
SentenceEndPattern == <<Cls({".", "!", "?"}, 1, 1), Spaces1>>

\* lines 251 and 266: \b[A-Za-z][A-Za-z\-]{n,}\b
WordPattern(n) ==
    <<WordBoundary, Cls(LetterSet, 1, 1), Cls(LetterSet \cup {"-"}, n, -1), WordBoundary>>
WordPattern3 == WordPattern(2)
WordPattern4 == WordPattern(3)

\* re.split(r'[.;\n]', a)[0]
FirstClause(a) ==
    LET cuts == {i \in 1..Len(a) : a[i] \in {".", ";", "\n"}}
    IN  IF cuts = {} THEN a
        ELSE SubSeq(a, 1, (CHOOSE i \in cuts : \A j \in cuts : i <= j) - 1)

DefaultPool ==
    <<<<"C","o","n","c","e","p","t">>, <<"P","r","o","c","e","s","s">>, <<"C","o","m","p","o","n","e","n","t">>, <<"P","r","o","t","o","c","o","l">>, <<"D","a","t","a","s","e","t">>, <<"M","e","t","h","o","d">>>>

Card(q, a, opts) ==
    [question |-> q, answer |-> a,
     option_a |-> opts.option_a, option_b |-> opts.option_b,
     option_c |-> opts.option_c, option_d |-> opts.option_d,
     correct_option |-> opts.correct_option]

\* lines 250-255: the correct phrase of a sentence card
correct_phrase(a) ==
    Only({ IF correct_ # <<>> THEN correct_ ELSE <<"C","o","r","r","e","c","t"," ","a","n","s","w","e","r">>
         : correct_ \in {Prefix(FirstClause(a), CorrectPhraseMax)} })

\* lines 251-254
distractor_pool(cleaned, a) ==
    Only({ IF pool # <<>> THEN pool ELSE DefaultPool
         : pool \in {Prefix([n \in 1..Len(kept) |-> capitalize(kept[n])], SentencePoolMax)
                        : kept \in {SelectSeq(FindAll(WordPattern3, cleaned),
                                              LAMBDA w : ~Contains(lc, lower(w)))
                                      : lc \in {lower(Prefix(FirstClause(a), CorrectPhraseMax))}}} })

\* a card before its options are drawn: the question, the answer and the two
\* arguments of assign_options_random
Planned(q, a, correct_, wrongs) ==
    [question |-> q, answer |-> a, correct |-> correct_, wrongs |-> wrongs]

\* lines 241-262: the cards of the sentences, in sentence order
RECURSIVE sentence_cards(_, _, _, _)
sentence_cards(cleaned, sentences, limit, cards) ==
    IF sentences = <<>> \/ Len(cards) >= limit THEN cards
    ELSE Only({ IF qa = NoneVal \/ qa[1] = <<>> \/ qa[2] = <<>>
                THEN sentence_cards(cleaned, Tail(sentences), limit, cards)
                ELSE sentence_cards(cleaned, Tail(sentences), limit,
                        Append(cards, Planned(qa[1], qa[2], correct_phrase(qa[2]),
                                              distractor_pool(cleaned, qa[2]))))
              : qa \in {derive_qa(Head(sentences))} })

\* lines 266-275: the first six distinct words of four letters or more
RECURSIVE unique_words(_, _, _)
unique_words(words, seen, unique) ==
    IF words = <<>> THEN unique
    ELSE Only({ IF Len(u2) >= GenericPoolMax THEN u2
                ELSE unique_words(Tail(words), seen \cup {lower(Head(words))}, u2)
              : u2 \in {IF lower(Head(words)) \in seen THEN unique
                        ELSE Append(unique, capitalize(Head(words)))} })

GenericQuestion == <<"W","h","i","c","h"," ","s","t","a","t","e","m","e","n","t"," ","b","e","s","t"," ","d","e","s","c","r","i","b","e","s"," ","t","h","e"," ","t","o","p","i","c","?">>
GenericAnswer == <<"I","t"," ","r","e","f","e","r","s"," ","t","o"," ","k","e","y"," ","i","d","e","a","s"," ","i","n"," ","t","h","e"," ","p","r","o","v","i","d","e","d"," ","t","e","x","t",".">>

\* lines 276-277: the correct phrase of the generic cards
generic_correct(unique) ==
    (IF unique # <<>> THEN unique[1] ELSE <<"K","e","y"," ","c","o","n","c","e","p","t">>) \o <<" ","f","r","o","m"," ","t","h","e"," ","t","e","x","t">>

\* a faulty generic card: the wrong options do not roll with idx (line 279
\* without idx)
synthesize_generic_unrolled(unique, idx) ==
    LET pool == IF unique # <<>> THEN unique ELSE DefaultPool
        wrongs == [j \in 1..3 |-> pool[((j - 1) % Len(pool)) + 1]]
    IN  Planned(GenericQuestion, GenericAnswer, generic_correct(unique), wrongs)

\* lines 265-285: generic card number idx (0-based), unique the list of line 267
synthesize_generic(unique, idx) ==
    LET pool == IF unique # <<>> THEN unique ELSE DefaultPool
        wrongs == [j \in 1..3 |-> pool[((idx + j - 1) % Len(pool)) + 1]]
    IN  Planned(GenericQuestion, GenericAnswer, generic_correct(unique), wrongs)

\* lines 266-275
generic_words(cleaned) == unique_words(FindAll(WordPattern4, cleaned), {}, <<>>)

\* a faulty plan: the sentence cards without the generic cards of lines 264-289
sentence_plan(cleaned, limit) ==
    sentence_cards(cleaned, ReSplit(SentenceEndPattern, cleaned), limit, <<>>)

\* lines 239-290 up to the random draws: the cards in the order of the list
fallback_plan(cleaned, limit) ==
    Only({ IF Len(cards) >= limit THEN cards
           ELSE Only({ cards \o [i \in 1..(limit - Len(cards)) |->
                                    synthesize_generic(unique, i - 1)]
                     : unique \in {generic_words(cleaned)} })
         : cards \in {sentence_cards(cleaned, ReSplit(SentenceEndPattern, cleaned),
                                     limit, <<>>)} })

\* the options of every planned card, rnd[n] being what random.randint(0, 3)
\* returns for card n
draw_cards(plan, rnd) ==
    [n \in 1..Len(plan) |->
        Card(plan[n].question, plan[n].answer,
             assign_options_random(plan[n].correct, plan[n].wrongs, rnd[n]))]

\* every value random.randint(0, 3) can return, line 159
SlotDraws == 0..3

\* _fallback_flashcards(cleaned_text, limit): the lists it can return, one for
\* every outcome of its random draws
_fallback_flashcards(cleaned, limit) ==
    UNION {{draw_cards(plan, rnd) : rnd \in [1..Len(plan) -> SlotDraws]}
             : plan \in {fallback_plan(cleaned, limit)}}

-----------------------------------------------------------------------------
(* Python values as the json module builds them: [t, v] with t the type and *)
(* v the text str() gives (str, int, float, bool, NoneType), the items      *)
(* (list) or the <<key, value>> pairs in insertion order (dict).            *)
(* A float keeps the text of its literal, a zero float is "0.0".            *)

PyVal(t, v) == [t |-> t, v |-> v]
PyNone == PyVal("NoneType", <<"N","o","n","e">>)
PyTrue == PyVal("bool", <<"T","r","u","e">>)
PyFalse == PyVal("bool", <<"F","a","l","s","e">>)
PyStrVal(chars) == PyVal("str", chars)
PyList(items) == PyVal("list", items)
PyDict(pairs) == PyVal("dict", pairs)

\* bool(x)
Truthy(x) ==
    CASE x.t = "NoneType" -> FALSE
      [] x.t = "bool" -> x.v = <<"T","r","u","e">>
      [] x.t = "int" -> x.v # <<"0">>
      [] x.t = "float" -> x.v # <<"0",".","0">>
      [] OTHER -> x.v # <<>>

\* d[key] = value
DictSet(pairs, key, value) ==
    IF \E n \in 1..Len(pairs) : pairs[n][1] = key
    THEN [n \in 1..Len(pairs) |-> IF pairs[n][1] = key THEN <<key, value>> ELSE pairs[n]]
    ELSE Append(pairs, <<key, value>>)

\* d.get(key, default) for a dict d
DictGet(d, key, default) ==
    IF \E n \in 1..Len(d.v) : d.v[n][1] = key
    THEN d.v[CHOOSE n \in 1..Len(d.v) : d.v[n][1] = key][2]
    ELSE default

\* repr() of a str without a backslash: single quotes unless it holds one
ReprStr(chars) ==
    LET Esc(c) == CASE c = "\n" -> <<"\\","n">> [] c = "\t" -> <<"\\","t">> [] c = "\r" -> <<"\\","r">>
                    [] c = "\f" -> <<"\\","x","0","c">> [] OTHER -> <<c>>
        body == Concat([n \in 1..Len(chars) |-> Esc(chars[n])])
    IN  IF \E n \in 1..Len(chars) : chars[n] = "'"
        THEN IF \E n \in 1..Len(chars) : chars[n] = "\""
             THEN <<"'">> \o Concat([n \in 1..Len(chars) |->
                                     IF chars[n] = "'" THEN <<"\\","'">> ELSE Esc(chars[n])]) \o <<"'">>
             ELSE <<"\"">> \o body \o <<"\"">>
        ELSE <<"'">> \o body \o <<"'">>

\* repr(x)
RECURSIVE PyRepr(_)
PyRepr(x) ==
    CASE x.t = "str" -> ReprStr(x.v)
      [] x.t = "list" ->
            <<"[">> \o Join(<<","," ">>, [n \in 1..Len(x.v) |-> PyRepr(x.v[n])]) \o <<"]">>
      [] x.t = "dict" ->
            <<"{">> \o Join(<<","," ">>, [n \in 1..Len(x.v) |->
                                    ReprStr(x.v[n][1]) \o <<":"," ">> \o PyRepr(x.v[n][2])]) \o <<"}">>
      [] OTHER -> x.v

\* str(x)
PyStr(x) == IF x.t = "str" THEN x.v ELSE PyRepr(x)

-----------------------------------------------------------------------------
(* json.loads and JSONDecoder.raw_decode (json/decoder.py, json/scanner.py) *)

JsonSpace == {" ", "\t", "\n", "\r"}
ControlSet == {"\t", "\n", "\r", "\f"}

NoValue == [ok |-> FALSE, val |-> PyNone, next |-> 0]
Decoded(val, next) == [ok |-> TRUE, val |-> val, next |-> next]

\* the first position from i on that holds no JSON whitespace
SkipWs(s, i) ==
    LET stops == {j \in i..Len(s) : s[j] \notin JsonSpace}
    IN  IF stops = {} THEN (IF i > Len(s) + 1 THEN i ELSE Len(s) + 1)
        ELSE CHOOSE j \in stops : \A k \in stops : j <= k

CharAt(s, i) == IF i >= 1 /\ i <= Len(s) THEN s[i] ELSE ""

\* the character an escape sequence stands for ("" for none)
Unescape(c) ==
    CASE c = "\"" -> "\"" [] c = "\\" -> "\\" [] c = "/" -> "/" [] c = "n" -> "\n"
      [] c = "t" -> "\t" [] c = "r" -> "\r" [] c = "f" -> "\f" [] OTHER -> ""

\* py_scanstring, strict: the string whose opening quote is before position i
RECURSIVE ScanString(_, _)
ScanString(s, i) ==
    LET terms == {j \in i..Len(s) : s[j] \in ({"\"", "\\"} \cup ControlSet)}
    IN  IF terms = {} THEN NoValue
        ELSE Only({ IF s[t] = "\"" THEN Decoded(SubSeq(s, i, t - 1), t + 1)
                    ELSE IF s[t] = "\\" /\ Unescape(CharAt(s, t + 1)) # ""
                    THEN Only({ IF r.ok
                                THEN Decoded(SubSeq(s, i, t - 1) \o <<Unescape(s[t + 1])>>
                                                \o r.val, r.next)
                                ELSE NoValue
                              : r \in {ScanString(s, t + 2)} })
                    ELSE NoValue
                  : t \in {CHOOSE j \in terms : \A k \in terms : j <= k} })

\* NUMBER_RE: (-?(?:0|[1-9]\d*))(\.\d+)?([eE][-+]?\d+)?
NumberPattern ==
    <<Mark, Cls({"-"}, 0, 1),
      Alt(<<<<Cls({"0"}, 1, 1)>>, <<Cls(DigitSet \ {"0"}, 1, 1), Cls(DigitSet, 0, -1)>>>>),
      Mark,
      Alt(<<<<Cls({"."}, 1, 1), Cls(DigitSet, 1, -1)>>, <<>>>>),
      Alt(<<<<Cls({"e", "E"}, 1, 1), Cls({"-", "+"}, 0, 1), Cls(DigitSet, 1, -1)>>, <<>>>>)>>

\* the value of a number literal: int(integer) when it has no fraction and no
\* exponent, else a float
NumberVal(s, m) ==
    LET whole == SubSeq(s, m.caps[1], m.caps[2] - 1)
        lit == SubSeq(s, m.caps[1], m.end - 1)
    IN  IF m.end = m.caps[2]
        THEN PyVal("int", IF whole = <<"-","0">> THEN <<"0">> ELSE whole)
        ELSE LET exps == {n \in 1..Len(lit) : lit[n] \in {"e", "E"}}
                 mant == IF exps = {} THEN Len(lit) ELSE (CHOOSE n \in exps : TRUE) - 1
             IN  PyVal("float", IF \A n \in 1..mant : lit[n] \in {"0", "-", "."}
                                THEN <<"0",".","0">> ELSE lit)

\* a number literal at position i, or one of the constants NaN, Infinity,
\* -Infinity; m is the match of NUMBER_RE at i
NumberAt(s, i, m) ==
    IF m.ok THEN Decoded(NumberVal(s, m), m.end)
    ELSE IF OccursAt(s, <<"N","a","N">>, i) THEN Decoded(PyVal("float", <<"n","a","n">>), i + 3)
    ELSE IF OccursAt(s, <<"I","n","f","i","n","i","t","y">>, i) THEN Decoded(PyVal("float", <<"i","n","f">>), i + 8)
    ELSE IF OccursAt(s, <<"-","I","n","f","i","n","i","t","y">>, i) THEN Decoded(PyVal("float", <<"-","i","n","f">>), i + 9)
    ELSE NoValue

RECURSIVE ParseValue(_, _)
RECURSIVE ArrayItems(_, _, _)
RECURSIVE ObjectPairs(_, _, _)

\* JSONArray after its '['
ParseArray(s, i) ==
    Only({ IF CharAt(s, j) = "]" THEN Decoded(PyList(<<>>), j + 1)
           ELSE ArrayItems(s, j, <<>>)
         : j \in {SkipWs(s, i)} })

ArrayItems(s, j, acc) ==
    Only({ IF ~v.ok THEN NoValue
           ELSE Only({ IF CharAt(s, k) = "]" THEN Decoded(PyList(Append(acc, v.val)), k + 1)
                       ELSE IF CharAt(s, k) = ","
                       THEN ArrayItems(s, SkipWs(s, k + 1), Append(acc, v.val))
                       ELSE NoValue
                     : k \in {SkipWs(s, v.next)} })
         : v \in {ParseValue(s, j)} })

\* JSONObject after its '{'
ParseObject(s, i) ==
    Only({ IF CharAt(s, j) = "}" THEN Decoded(PyDict(<<>>), j + 1)
           ELSE IF CharAt(s, j) = "\"" THEN ObjectPairs(s, j + 1, <<>>)
           ELSE NoValue
         : j \in {SkipWs(s, i)} })

\* the pairs of an object from a key on, i the position after the key's quote
ObjectPairs(s, i, acc) ==
    Only({ IF ~key.ok THEN NoValue
           ELSE Only({ IF CharAt(s, k) # ":" THEN NoValue
                       ELSE Only({ IF ~v.ok THEN NoValue
                                   ELSE Only({ IF CharAt(s, m) = "}"
                                               THEN Decoded(PyDict(DictSet(acc, key.val, v.val)), m + 1)
                                               ELSE IF CharAt(s, m) = ","
                                                       /\ CharAt(s, SkipWs(s, m + 1)) = "\""
                                               THEN ObjectPairs(s, SkipWs(s, m + 1) + 1,
                                                                DictSet(acc, key.val, v.val))
                                               ELSE NoValue
                                             : m \in {SkipWs(s, v.next)} })
                                 : v \in {ParseValue(s, SkipWs(s, k + 1))} })
                     : k \in {SkipWs(s, key.next)} })
         : key \in {ScanString(s, i)} })

\* scan_once(s, idx): the value that starts at position i
ParseValue(s, i) ==
    LET c == CharAt(s, i)
    IN  IF c = "" THEN NoValue
        ELSE IF c = "\""
        THEN Only({ IF r.ok THEN Decoded(PyStrVal(r.val), r.next) ELSE NoValue
                  : r \in {ScanString(s, i + 1)} })
        ELSE IF c = "{" THEN ParseObject(s, i + 1)
        ELSE IF c = "[" THEN ParseArray(s, i + 1)
        ELSE IF OccursAt(s, <<"n","u","l","l">>, i) THEN Decoded(PyNone, i + 4)
        ELSE IF OccursAt(s, <<"t","r","u","e">>, i) THEN Decoded(PyTrue, i + 4)
        ELSE IF OccursAt(s, <<"f","a","l","s","e">>, i) THEN Decoded(PyFalse, i + 5)
        ELSE NumberAt(s, i, Match(s, NumberPattern, i, <<>>))

\* json.loads(s): [ok, val, next], ok FALSE where json.loads raises
json_loads(s) ==
    Only({ IF r.ok /\ SkipWs(s, r.next) = Len(s) + 1 THEN r ELSE NoValue
         : r \in {ParseValue(s, SkipWs(s, 1))} })

\* dec.raw_decode(s, idx) for a 0-based idx: next is the 0-based end
raw_decode(s, idx) ==
    Only({ IF r.ok THEN Decoded(r.val, r.next - 1) ELSE NoValue
         : r \in {ParseValue(s, idx + 1)} })

-----------------------------------------------------------------------------
(* extract_last_json_array, try_json_loads, parse_json_array_lenient,       *)
(* utils.py:60-148                                                          *)

\* line 64: \[[\s\S]*?\]
BracketedPattern == <<Cls({"["}, 1, 1), Lazy(NCls({}, 0, -1)), Cls({"]"}, 1, 1)>>

\* lines 67-71
strip_fence(js, fence) ==
    Only({ IF startswith(s, fence) THEN strip(StripSet(s, {Backtick})) ELSE s
         : s \in {strip(js)} })

\* a faulty closing: the array is closed, the open objects are not
close_bracket_only(candidate) ==
    IF FindChar(candidate, "]") = 0 THEN candidate \o <<"]">> ELSE candidate

\* lines 77-83: the closers appended to a candidate without ']'
close_candidate(candidate) ==
    IF FindChar(candidate, "]") = 0
    THEN LET open_obj == CountChar(candidate, "{")
             close_obj == CountChar(candidate, "}")
         IN  candidate
                \o (IF close_obj < open_obj THEN Repeat("}", open_obj - close_obj)
                    ELSE <<>>)
                \o <<"]">>
    ELSE candidate

\* lines 84-90: the candidate cut after its last '}', the brackets of the
\* rest kept
trim_candidate(candidate) ==
    LET last_obj_end == RFindChar(candidate, "}")
    IN  IF last_obj_end # 0
        THEN SubSeq(candidate, 1, last_obj_end)
                \o SelectSeq(SubSeq(candidate, last_obj_end + 1, Len(candidate)),
                             LAMBDA c : c = "]")
        ELSE candidate

\* lines 73-94: the salvage of a text without a bracketed array; start_idx
\* is the 1-based position of its first '['
salvage(t, start_idx) ==
    Only({ IF startswith(salvaged, <<"[">>) THEN salvaged ELSE NoneVal
         : salvaged \in {strip(trim_candidate(close_candidate(SubSeq(t, start_idx, Len(t)))))} })

\* extract_last_json_array(text): the str returned, or NoneVal
extract_last_json_array(t) ==
    IF t = NoneVal \/ t = <<>> THEN NoneVal
    ELSE Only({ IF spans # <<>>
                THEN strip_fence(SubSeq(t, spans[Len(spans)][1], spans[Len(spans)][2] - 1),
                                 <<Backtick,Backtick,Backtick>>)
                ELSE IF FindChar(t, "[") # 0 THEN salvage(t, FindChar(t, "["))
                ELSE NoneVal
              : spans \in {FindSpans(BracketedPattern, t, 1)} })

\* try_json_loads(s): [ok, val], ok FALSE where it returns None for an error
\* (a JSON null is ok with val PyNone)
try_json_loads(s) ==
    IF s = NoneVal \/ s = <<>> THEN NoValue
    ELSE json_loads(strip_fence(strip(LStripSet(strip(s), {BOM})), <<Backtick,Backtick>>))

\* lines 134-135 and 146-147: the 0-based position after the spaces and
\* commas from pos on
SkipSeparators(inner, pos) ==
    LET stops == {j \in pos..(Len(inner) - 1) : inner[j + 1] \notin {" ", "\t", "\r", "\n", ","}}
    IN  IF stops = {} THEN (IF pos > Len(inner) THEN pos ELSE Len(inner))
        ELSE CHOOSE j \in stops : \A k \in stops : j <= k

\* lines 132-147: the items decoded from the 0-based position pos on
RECURSIVE lenient_items(_, _, _)
lenient_items(inner, pos, items) ==
    Only({ IF p >= Len(inner) THEN items
           ELSE Only({ IF r.ok THEN lenient_items(inner, r.next, Append(items, r.val))
                       ELSE items
                     : r \in {raw_decode(inner, p)} })
         : p \in {SkipSeparators(inner, pos)} })

\* parse_json_array_lenient(s): the list of recovered items, <<>> for None
parse_json_array_lenient(s0) ==
    IF s0 = NoneVal \/ s0 = <<>> THEN <<>>
    ELSE Only({ LET start == FindChar(s, "[")
                    end == RFindChar(s, "]")
                IN  IF start = 0 THEN <<>>
                    ELSE lenient_items(IF end # 0 THEN Slice(s, start, end - 1)
                                       ELSE Suffix(s, start), 0, <<>>)
              : s \in {strip(s0)} })

-----------------------------------------------------------------------------
(* The validation loop of generate_flashcards_with_ai, utils.py:379-424 *)

ShortPhraseMax == 60
DistractorPoolMax == 12
QuestionMax == 255
AnswerMax == 1000
OptionMax == 255
BatchMax == 10
CardTarget == 3

\* _short_phrase(text), lines 379-385
_short_phrase(t0) ==
    Only({ IF t = <<>> THEN <<>>
           ELSE Prefix(strip(CollapseSpaces(FirstClause(t))), ShortPhraseMax)
         : t \in {strip(t0)} })

\* line 398
AiDefaultPool ==
    <<<<"C","o","n","c","e","p","t">>, <<"P","r","o","c","e","s","s">>, <<"C","o","m","p","o","n","e","n","t">>, <<"P","r","o","t","o","c","o","l">>, <<"D","a","t","a","s","e","t">>, <<"M","e","t","h","o","d">>,
      <<"L","i","b","r","a","r","y">>, <<"M","o","d","e","l">>>>

\* lines 389-397: the words kept, capitalized, at most DistractorPoolMax
RECURSIVE distinct_words(_, _, _, _)
distinct_words(words, seen, uniq, avoid_l) ==
    IF words = <<>> THEN uniq
    ELSE Only({ LET keep == lw \notin seen /\ ~Contains(avoid_l, lw)
                IN  Only({ IF Len(u2) >= DistractorPoolMax THEN u2
                           ELSE distinct_words(Tail(words),
                                               IF keep THEN seen \cup {lw} ELSE seen,
                                               u2, avoid_l)
                         : u2 \in {IF keep THEN Append(uniq, capitalize(Head(words)))
                                   ELSE uniq} })
              : lw \in {lower(Head(words))} })

\* _distractors(source, avoid, 3), lines 387-402
_distractors(source, avoid) ==
    Only({ [i \in 1..3 |-> pool[((i - 1) % Len(pool)) + 1]]
         : pool \in {IF uniq # <<>> THEN uniq ELSE AiDefaultPool
                       : uniq \in {distinct_words(FindAll(WordPattern3, source), {}, <<>>,
                                                  lower(avoid))}} })

\* x or y
PyOr(x, y) == IF Truthy(x) THEN x ELSE y

\* lines 406-407
item_question(c) == PyOr(DictGet(c, <<"q","u","e","s","t","i","o","n">>, PyNone), DictGet(c, <<"Q","u","e","s","t","i","o","n">>, PyNone))
item_answer(c) == PyOr(DictGet(c, <<"a","n","s","w","e","r">>, PyNone), DictGet(c, <<"A","n","s","w","e","r">>, PyNone))

\* line 405: c.get raises AttributeError for an item that is not a dict
raises_on(c) == c.t # "dict"

\* line 408
is_valid_item(c) == ~raises_on(c) /\ Truthy(item_question(c)) /\ Truthy(item_answer(c))

\* lines 409-415: the card of an item with a truthy option_a
copied_card(c) ==
    LET Opt(key) == Prefix(PyStr(DictGet(c, key, PyStrVal(<<>>))), OptionMax)
    IN  [question |-> Prefix(PyStr(item_question(c)), QuestionMax),
         answer |-> Prefix(PyStr(item_answer(c)), AnswerMax),
         option_a |-> Opt(<<"o","p","t","i","o","n","_","a">>), option_b |-> Opt(<<"o","p","t","i","o","n","_","b">>),
         option_c |-> Opt(<<"o","p","t","i","o","n","_","c">>), option_d |-> Opt(<<"o","p","t","i","o","n","_","d">>),
         correct_option |-> upper(Prefix(PyStr(DictGet(c, <<"c","o","r","r","e","c","t","_","o","p","t","i","o","n">>, PyStrVal(<<>>))), 1))]

\* lines 409 and 419-420: the card of an item without option_a, before the
\* random draw of assign_options_random
synthesized_card(c, cleaned) ==
    LET q == Prefix(PyStr(item_question(c)), QuestionMax)
        a == Prefix(PyStr(item_answer(c)), AnswerMax)
    IN  Only({ Planned(q, a, correct_, _distractors(cleaned, correct_))
             : correct_ \in {IF p # <<>> THEN p
                             ELSE IF _short_phrase(q) # <<>> THEN _short_phrase(q)
                             ELSE <<"C","o","r","r","e","c","t"," ","a","n","s","w","e","r">>
                               : p \in {_short_phrase(a)}} })

\* line 410
has_options(c) == Truthy(DictGet(c, <<"o","p","t","i","o","n","_","a">>, PyNone))

\* lines 404-424 for a batch without a raising item among its first BatchMax:
\* per valid item, in batch order, the finished card (draw FALSE) or the card
\* awaiting its random draw (draw TRUE)
valid_plan(batch, cleaned) ==
    LET Entry(c) == IF has_options(c) THEN [draw |-> FALSE, card |-> copied_card(c)]
                    ELSE [draw |-> TRUE, card |-> synthesized_card(c, cleaned)]
        kept == SelectSeq(Prefix(batch, BatchMax), is_valid_item)
    IN  [n \in 1..Len(kept) |-> Entry(kept[n])]

\* the list valid for the draws rnd, rnd[n] being what random.randint(0, 3)
\* returns for entry n
valid_cards(plan, rnd) ==
    [n \in 1..Len(plan) |->
        IF plan[n].draw
        THEN Card(plan[n].card.question, plan[n].card.answer,
                  assign_options_random(plan[n].card.correct, plan[n].card.wrongs, rnd[n]))
        ELSE plan[n].card]

\* every list valid the loop can build
valid_lists(batch, cleaned) ==
    UNION {{valid_cards(plan, rnd) :
                rnd \in [{n \in 1..Len(plan) : plan[n].draw} -> SlotDraws]}
             : plan \in {valid_plan(batch, cleaned)}}

\* whether the loop raises: an item that is not a dict among the first BatchMax
loop_raises(batch) == \E n \in 1..Len(Prefix(batch, BatchMax)) : raises_on(batch[n])

-----------------------------------------------------------------------------
(* What model.run can do, utils.py:317-347.  An output is [t, v, str, cut]: *)
(* t "object" with the attributes v, or t "dict" with the entries v; str is *)
(* what str(output) gives; cut names the complete objects of a truncated    *)
(* array (<<>> for every other content).                                    *)

Output(t, v, str, cut) == [t |-> t, v |-> v, str |-> str, cut |-> cut]
NoOutput == Output("unbound", <<>>, <<>>, <<>>)

\* an SDK result object whose output attribute is {'content': c}
Response(c, cut) ==
    Output("object", <<<<<<"e","r","r","o","r">>, PyNone>>,
                       <<<<"o","u","t","p","u","t">>, PyDict(<<<<<<"c","o","n","t","e","n","t">>, c>>>>)>>>>, <<"<","R","e","s","p","o","n","s","e",">">>, cut)
\* an SDK result object that reports an error
ErrorResponse ==
    Output("object", <<<<<<"e","r","r","o","r">>, PyStrVal(<<"m","o","d","e","l"," ","u","n","a","v","a","i","l","a","b","l","e">>)>>,
                       <<<<"o","u","t","p","u","t">>, PyNone>>>>, <<"<","R","e","s","p","o","n","s","e",">">>, <<>>)
\* a plain dict {'content': c}
DictOutput(c) == Output("dict", <<<<<<"c","o","n","t","e","n","t">>, c>>>>, <<>>, <<>>)
\* an object without the attributes error and output, str(output) being s
TextOutput(s) == Output("object", <<>>, s, <<>>)

\* hasattr(output, name)
HasAttr(o, name) == o.t = "object" /\ \E n \in 1..Len(o.v) : o.v[n][1] = name

\* lines 339: hasattr(output, 'error') and output.error
reports_error(o) == HasAttr(o, <<"e","r","r","o","r">>) /\ Truthy(DictGet(o, <<"e","r","r","o","r">>, PyNone))

\* lines 342-347
content_of(o) ==
    IF HasAttr(o, <<"o","u","t","p","u","t">>) /\ DictGet(o, <<"o","u","t","p","u","t">>, PyNone).t = "dict"
    THEN DictGet(DictGet(o, <<"o","u","t","p","u","t">>, PyNone), <<"c","o","n","t","e","n","t">>, PyNone)
    ELSE IF o.t = "dict" THEN DictGet(o, <<"c","o","n","t","e","n","t">>, PyNone)
    ELSE PyStrVal(o.str)

\* line 306
ai_enabled(key, sdk) == key /\ sdk

\* lines 364-369: flashcards after the strict and the lenient parse, <<>>
\* where both yield nothing
parsed_batch(js) ==
    Only({ IF r.ok /\ r.val.t = "list" /\ r.val.v # <<>> THEN r.val.v
           ELSE parse_json_array_lenient(js)
         : r \in {try_json_loads(js)} })

-----------------------------------------------------------------------------
(* generate_flashcards_with_ai, utils.py:293-434, one action per stretch of *)
(* the body between two calls.  Returning drops the locals.                 *)

FrameGone ==
    /\ output' = NoOutput /\ cleaned_text' = NoneVal /\ content' = PyNone
    /\ json_string' = NoneVal /\ flashcards' = <<>> /\ valid' = <<>>

Return(cards, line) ==
    /\ pc' = "done" /\ result' = cards /\ ret_line' = line
    /\ FrameGone
    /\ UNCHANGED <<call, ret, text, api_key, Bytez, run_calls>>

\* return _fallback_flashcards(cleaned_text)
ReturnFallback(line) ==
    \E cards \in _fallback_flashcards(cleaned_text, CardTarget) : Return(cards, line)

Goto(label) ==
    /\ pc' = label
    /\ UNCHANGED <<call, ret, text, api_key, Bytez, result, ret_line>>

\* lines 298-300
Clean ==
    /\ pc = "start"
    /\ IF clean_text(text) = <<>> THEN Return(<<>>, 300)
       ELSE /\ Goto("config")
            /\ cleaned_text' = clean_text(text)
            /\ UNCHANGED <<output, content, json_string, flashcards, valid, run_calls>>

\* a faulty CheckConfig: nothing is returned where the external path is disabled
CheckConfigEmpty ==
    /\ pc = "config"
    /\ IF ~ai_enabled(api_key, Bytez) THEN Return(<<>>, 312)
       ELSE /\ Goto("call")
            /\ UNCHANGED <<output, cleaned_text, content, json_string, flashcards, valid,
                           run_calls>>

\* lines 303-314
CheckConfig ==
    /\ pc = "config"
    /\ IF ~ai_enabled(api_key, Bytez) THEN ReturnFallback(312)
       ELSE /\ Goto("call")
            /\ UNCHANGED <<output, cleaned_text, content, json_string, flashcards, valid,
                           run_calls>>

\* lines 317-332: Bytez(api_key) or sdk.model raises, or model.run is called
\* and raises or returns an output
RunModel(outputs) ==
    /\ pc = "call"
    /\ \/ /\ Goto("except")
          /\ UNCHANGED <<output, cleaned_text, content, json_string, flashcards, valid,
                         run_calls>>
       \/ /\ Goto("except")
          /\ run_calls' = run_calls + 1
          /\ UNCHANGED <<output, cleaned_text, content, json_string, flashcards, valid>>
       \/ \E o \in outputs :
            /\ Goto("shape")
            /\ run_calls' = run_calls + 1
            /\ output' = o
            /\ UNCHANGED <<cleaned_text, content, json_string, flashcards, valid>>

\* lines 339-351
ReadOutput ==
    /\ pc = "shape"
    /\ IF reports_error(output) THEN ReturnFallback(341)
       ELSE IF ~Truthy(content_of(output)) THEN ReturnFallback(351)
       ELSE /\ Goto("extract")
            /\ content' = content_of(output)
            /\ UNCHANGED <<output, cleaned_text, json_string, flashcards, valid, run_calls>>

\* lines 353-357; re.findall raises TypeError for a content that is not a str
Extract ==
    /\ pc = "extract"
    /\ IF content.t # "str"
       THEN /\ Goto("except")
            /\ UNCHANGED <<output, cleaned_text, content, json_string, flashcards, valid,
                           run_calls>>
       ELSE \E js \in {extract_last_json_array(content.v)} :
                IF js = NoneVal \/ js = <<>> THEN ReturnFallback(357)
                ELSE /\ Goto("parse")
                     /\ json_string' = js
                     /\ UNCHANGED <<output, cleaned_text, content, flashcards, valid,
                                    run_calls>>

\* lines 363-372
Parse ==
    /\ pc = "parse"
    /\ \E batch \in {parsed_batch(json_string)} :
            IF batch = <<>> THEN ReturnFallback(372)
            ELSE /\ Goto("validate")
                 /\ flashcards' = batch
                 /\ UNCHANGED <<output, cleaned_text, content, json_string, valid,
                                run_calls>>

\* lines 404-426
Validate ==
    /\ pc = "validate"
    /\ IF loop_raises(flashcards)
       THEN /\ Goto("except")
            /\ UNCHANGED <<output, cleaned_text, content, json_string, flashcards, valid,
                           run_calls>>
       ELSE \E v \in valid_lists(flashcards, cleaned_text) :
                IF v = <<>> THEN ReturnFallback(426)
                ELSE /\ Goto("topup")
                     /\ valid' = v
                     /\ UNCHANGED <<output, cleaned_text, content, json_string, flashcards,
                                    run_calls>>

\* a faulty top-up: the heuristic is asked for its default of 3 cards, not
\* for the cards that are missing
TopUpByThree ==
    /\ pc = "topup"
    /\ IF Len(valid) < CardTarget
       THEN \E more \in _fallback_flashcards(cleaned_text, DefaultLimit) :
                Return(valid \o more, 431)
       ELSE Return(valid, 431)

\* lines 428-431
TopUp ==
    /\ pc = "topup"
    /\ IF Len(valid) < CardTarget
       THEN \E more \in _fallback_flashcards(cleaned_text, CardTarget - Len(valid)) :
                Return(valid \o more, 431)
       ELSE Return(valid, 431)

\* a faulty handler: the exception is answered with an empty list
ExceptReturnsNothing ==
    /\ pc = "except"
    /\ Return(<<>>, 434)

\* a faulty handler: the call is tried again
ExceptRetry ==
    /\ pc = "except"
    /\ Goto("call")
    /\ UNCHANGED <<output, cleaned_text, content, json_string, flashcards, valid, run_calls>>

\* lines 432-434
Except ==
    /\ pc = "except"
    /\ ReturnFallback(434)

-----------------------------------------------------------------------------
(* Unit specifications: one call of a function on arguments drawn from     *)
(* bounded sets.  generate_flashcards_with_ai is not running (pc = "idle"). *)

GenIdle ==
    /\ pc = "idle" /\ text = <<>> /\ api_key = FALSE /\ Bytez = FALSE
    /\ output = NoOutput /\ cleaned_text = NoneVal /\ content = PyNone
    /\ json_string = NoneVal /\ flashcards = <<>> /\ valid = <<>>
    /\ result = <<>> /\ ret_line = 0 /\ run_calls = 0

\* the longest wrongs list drawn
MaxWrongs == 4
\* the largest limit drawn
MaxLimit == 3

CorrectInputs == {<<"A","1">>, <<"O","p","t","i","o","n">>}
WrongAtoms == {<<>>, <<" ">>, <<"O","p","t","i","o","n">>, <<"A","1">>, <<"W">>}

InitAssign ==
    /\ call \in [fn : {"assign_options_random"}, correct : CorrectInputs,
                 wrongs : SeqsUpTo(WrongAtoms, MaxWrongs)]
    /\ ret = <<>>
    /\ GenIdle

CallAssign ==
    /\ call.fn = "assign_options_random" /\ ret = <<>>
    /\ \E correct_idx \in SlotDraws :
          ret' = <<assign_options_random(call.correct, call.wrongs, correct_idx)>>
    /\ UNCHANGED <<call, genVars>>

NextAssign == CallAssign

SpecAssign == InitAssign /\ [][NextAssign]_vars

\* cleaned texts: what clean_text returns (single spaces, stripped)
FallbackTexts ==
    { <<>>,
      <<"P","h","o","t","o","s","y","n","t","h","e","s","i","s"," ","i","s"," ","t","h","e"," ","p","r","o","c","e","s","s"," ","p","l","a","n","t","s"," ","u","s","e"," ","t","o"," ","c","o","n","v","e","r","t"," ","l","i","g","h","t"," ","i","n","t","o"," ","e","n","e","r","g","y",".">>,
      <<"H","T","T","P",":"," ","a"," ","p","r","o","t","o","c","o","l"," ","f","o","r"," ","t","h","e"," ","w","e","b","."," ","C","a","t","s"," ","a","r","e"," ","s","m","a","l","l"," ","a","n","i","m","a","l","s"," ","t","h","a","t"," ","p","u","r","r","!"," ","E","n","t","r","o","p","y"," ","r","e","f","e","r","s"," ","t","o"," ","d","i","s","o","r","d","e","r","."," ","A","P","I"," ","s","t","a","n","d","s"," ","f","o","r"," ","a","n"," ","i","n","t","e","r","f","a","c","e",".">>,
      <<"C","o","n","c","e","p","t",";"," ","c","o","n","c","e","p","t">>,
      <<"x">>,
      <<"t","i","n","y","."," ","s","m","a","l","l","."," ","b","i","t","s",".">>,
      <<"H","e","l","l","o"," ","w","o","r","l","d">>,
      <<"i","t","'","s"," ","a"," ","d","o","g","'","s"," ","l","i","f","e"," ","f","o","r"," ","t","h","e"," ","b","e","e","s">>,
      <<"O","p","t","i","o","n"," ","i","s"," ","O","p","t","i","o","n"," ","i","s"," ","O","p","t","i","o","n">>,
      <<"I","n"," ","b","i","o","l","o","g","y",","," ","t","h","e"," ","c","e","l","l"," ","i","s"," ","t","h","e"," ","u","n","i","t"," ","o","f"," ","l","i","f","e","."," ","w","e","l","l","-","k","n","o","w","n"," ","c","o","-","o","p"," ","a","b","-"," ","b","_","c","."," ","D","o","g","s"," ","a","n","d"," ","c","a","t","s"," ","-"," ","p","e","t","s"," ","o","f"," ","p","e","o","p","l","e">>,
      <<";",".",";",".",";",".",";",".",";",".",";",".",";",".",";","."," ","?">>,
      <<"O","n","e"," ","s","e","n","t","e","n","c","e"," ","h","e","r","e"," ","i","s"," ","l","o","n","g"," ","e","n","o","u","g","h","."," ","A","n","o","t","h","e","r"," ","s","e","n","t","e","n","c","e"," ","f","o","l","l","o","w","s"," ","i","t","."," ","A"," ","t","h","i","r","d"," ","o","n","e"," ","i","s"," ","h","e","r","e","."," ","T","h","e"," ","f","o","u","r","t","h"," ","s","e","n","t","e","n","c","e"," ","i","s"," ","t","h","e"," ","l","a","s","t"," ","o","n","e",".">> }

InitFallback ==
    /\ call \in [fn : {"_fallback_flashcards"}, cleaned : FallbackTexts, limit : 1..MaxLimit]
    /\ ret = <<>>
    /\ GenIdle

CallFallback ==
    /\ call.fn = "_fallback_flashcards" /\ ret = <<>>
    /\ \E cards \in _fallback_flashcards(call.cleaned, call.limit) : ret' = <<cards>>
    /\ UNCHANGED <<call, genVars>>

NextFallback == CallFallback

SpecFallback == InitFallback /\ [][NextFallback]_vars

-----------------------------------------------------------------------------
(* One call of generate_flashcards_with_ai: the text, the configuration and *)
(* the behaviour of the SDK are drawn from bounded sets.                    *)

\* the longest closed array of items drawn
MaxItems == 3
\* the largest number of complete objects before a truncation
MaxComplete == 2

Texts ==
    { <<>>, <<" ","\n","\t"," ">>,
      <<"C","a","t","s"," ","a","r","e"," "," ","s","m","a","l","l"," ","a","n","i","m","a","l","s","\n","t","h","a","t"," ","p","u","r","r",".">>,
      <<"x">> }

\* the items of a response array, by kind: P a question and an answer, M a
\* full MCQ, B an MCQ with an empty, an absent and a null option and a
\* correct_option outside A-D, N an object without answer, X not an object,
\* R and S a question and an answer with brackets and braces in them
ItemText(kind) ==
    CASE kind = "P" -> <<"{","\"","q","u","e","s","t","i","o","n","\"",":","\"","Q","1","\"",",","\"","a","n","s","w","e","r","\"",":","\"","A","1","."," ","M","o","r","e","\"","}">>
      [] kind = "M" -> <<"{","\"","q","u","e","s","t","i","o","n","\"",":","\"","Q","2","\"",",","\"","a","n","s","w","e","r","\"",":","\"","A","2","\"",",","\"","o","p","t","i","o","n","_","a","\"",":","\"","a","\"",",","\"","o","p","t","i","o","n","_","b","\"",":","\"","b","\"",",","\"","o","p","t","i","o","n","_","c","\"",":","\"","c","\"",",","\"","o","p","t","i","o","n","_","d","\"",":","\"","d","\"",",","\"","c","o","r","r","e","c","t","_","o","p","t","i","o","n","\"",":","\"","b","\"","}">>
      [] kind = "B" -> <<"{","\"","q","u","e","s","t","i","o","n","\"",":","\"","Q","3","\"",",","\"","a","n","s","w","e","r","\"",":","\"","A","3","\"",",","\"","o","p","t","i","o","n","_","a","\"",":","\"","a","\"",",","\"","o","p","t","i","o","n","_","b","\"",":","\"","\"",",","\"","o","p","t","i","o","n","_","d","\"",":","n","u","l","l",",","\"","c","o","r","r","e","c","t","_","o","p","t","i","o","n","\"",":","\"","E","\"","}">>
      [] kind = "N" -> <<"{","\"","q","u","e","s","t","i","o","n","\"",":","\"","Q","4","\"",",","\"","a","n","s","w","e","r","\"",":","\"","\"","}">>
      [] kind = "X" -> <<"7">>
      [] kind = "R" -> <<"{","\"","q","u","e","s","t","i","o","n","\"",":","\"","I","s"," ","i","t"," ","[","x","]","?","\"",",","\"","a","n","s","w","e","r","\"",":","\"","I","t"," ","i","s"," ","x","\"","}">>
      [] kind = "S" -> <<"{","\"","q","u","e","s","t","i","o","n","\"",":","\"","W","h","a","t"," ","i","s"," ","{","[","}","?","\"",",","\"","a","n","s","w","e","r","\"",":","\"","A"," ","s","e","t","\"","}">>

\* the question and the answer written in an item of kind P, M, B, R or S
ItemQuestion(kind) ==
    CASE kind = "P" -> <<"Q","1">> [] kind = "M" -> <<"Q","2">> [] kind = "B" -> <<"Q","3">>
      [] kind = "R" -> <<"I","s"," ","i","t"," ","[","x","]","?">> [] kind = "S" -> <<"W","h","a","t"," ","i","s"," ","{","[","}","?">>
ItemAnswer(kind) ==
    CASE kind = "P" -> <<"A","1","."," ","M","o","r","e">> [] kind = "M" -> <<"A","2">> [] kind = "B" -> <<"A","3">>
      [] kind = "R" -> <<"I","t"," ","i","s"," ","x">> [] kind = "S" -> <<"A"," ","s","e","t">>

ItemKinds == {"P", "M", "B", "N", "X"}
CompleteKinds == {"P", "R", "S"}

\* where a truncated response stops after its complete objects
CutTails ==
    { <<>>, <<",">>, <<",","{","\"","q","u","e","s","t","i","o","n","\"",":","\"","Q","9","\"">>, <<",","{","\"","q","u","e","s","t","i","o","n","\"",":","\"","Q","9","\"",",","\"","a","n","s">>,
      <<","," ","{","\"","q","u","e","s","t","i","o","n","\"",":","\"","Q">> }

ItemTexts(kinds) == Join(<<",">>, [n \in 1..Len(kinds) |-> ItemText(kinds[n])])

\* a closed array and an array cut after the objects kinds
ClosedArray(kinds) == <<"[">> \o ItemTexts(kinds) \o <<"]">>
CutArray(kinds, tail) == <<"[">> \o ItemTexts(kinds) \o tail

\* contents around or without an array
ExtraContents ==
    { <<"I"," ","c","a","n","n","o","t"," ","h","e","l","p"," ","w","i","t","h"," ","t","h","a","t",".">>,
      ItemText("P"),
      <<"H","e","r","e"," ","a","r","e"," ","t","h","e"," ","c","a","r","d","s",":"," ">> \o ClosedArray(<<"M", "P">>) \o <<" ","E","n","j","o","y","!">>,
      <<Backtick,Backtick,Backtick,"j","s","o","n","\n">> \o ClosedArray(<<"M">>) \o <<"\n",Backtick,Backtick,Backtick>>,
      <<"[","1",","," ","2","]"," ">> \o ClosedArray(<<"M", "M">>),
      <<"[","{","\"","Q","u","e","s","t","i","o","n","\"",":","\"","Q","5","\"",",","\"","A","n","s","w","e","r","\"",":","\"","A","5","\"",",","\"","o","p","t","i","o","n","_","a","\"",":","\"","a","\"",",","\"","o","p","t","i","o","n","_","b","\"",":","\"","b","\"",",","\"","o","p","t","i","o","n","_","c","\"",":","\"","c","\"",",","\"","o","p","t","i","o","n","_","d","\"",":","\"","d","\"",",","\"","c","o","r","r","e","c","t","_","o","p","t","i","o","n","\"",":","\"","D","\"","}","]">>,
      ClosedArray(<<"M", "M", "M", "M">>),
      ClosedArray([n \in 1..(BatchMax + 1) |-> IF n = 1 THEN "B" ELSE "M"]) }

ModelOutputs ==
    {Response(PyStrVal(ClosedArray(kinds)), <<>>) : kinds \in SeqsUpTo(ItemKinds, MaxItems)}
    \cup {Response(PyStrVal(CutArray(kinds, tail)), kinds) :
            kinds \in SeqsUpTo(CompleteKinds, MaxComplete) \ {<<>>}, tail \in CutTails}
    \cup {Response(PyStrVal(c), <<>>) : c \in ExtraContents}
    \cup { ErrorResponse, Response(PyNone, <<>>), Response(PyStrVal(<<>>), <<>>),
           Response(PyList(<<>>), <<>>), Response(PyList(<<PyStrVal(<<"x">>)>>), <<>>),
           DictOutput(PyStrVal(ClosedArray(<<"M">>))), DictOutput(PyNone),
           TextOutput(ClosedArray(<<"P">>)), TextOutput(<<"<","R","e","s","p","o","n","s","e"," ","o","b","j","e","c","t",">">>) }

Init ==
    /\ call = [fn |-> "generate_flashcards_with_ai"] /\ ret = <<>>
    /\ pc = "start"
    /\ text \in Texts
    /\ api_key \in BOOLEAN /\ Bytez \in BOOLEAN
    /\ output = NoOutput /\ cleaned_text = NoneVal /\ content = PyNone
    /\ json_string = NoneVal /\ flashcards = <<>> /\ valid = <<>>
    /\ result = <<>> /\ ret_line = 0 /\ run_calls = 0

Next ==
    \/ Clean
    \/ CheckConfig
    \/ RunModel(ModelOutputs)
    \/ ReadOutput
    \/ Extract
    \/ Parse
    \/ Validate
    \/ TopUp
    \/ Except

Spec == Init /\ [][Next]_vars

-----------------------------------------------------------------------------
(* generate_flashcards_with_ai on a text that is one word longer than an   *)
(* option may be: the same actions, fewer outputs of model.run.             *)

LongWord == Repeat("w", OptionMax + 1)

LengthOutputs == {Response(PyStrVal(ClosedArray(<<"P">>)), <<>>)}

InitLengths ==
    /\ call = [fn |-> "generate_flashcards_with_ai"] /\ ret = <<>>
    /\ pc = "start"
    /\ text = LongWord
    /\ api_key \in BOOLEAN /\ Bytez \in BOOLEAN
    /\ output = NoOutput /\ cleaned_text = NoneVal /\ content = PyNone
    /\ json_string = NoneVal /\ flashcards = <<>> /\ valid = <<>>
    /\ result = <<>> /\ ret_line = 0 /\ run_calls = 0

NextLengths ==
    \/ Clean
    \/ CheckConfig
    \/ RunModel(LengthOutputs)
    \/ ReadOutput
    \/ Extract
    \/ Parse
    \/ Validate
    \/ TopUp
    \/ Except

SpecLengths == InitLengths /\ [][NextLengths]_vars

-----------------------------------------------------------------------------
(* derive_qa, utils.py:190-237: one call on a sentence.                     *)

LeftPads == {<<>>, <<" ">>, <<"\t"," ">>}
RightPads == {<<>>, <<" ">>, <<" ","\n">>, <<" "," "," "," "," "," ">>}

SentenceBodies ==
    { <<"H","T","T","P",":"," ","a"," ","p","r","o","t","o","c","o","l"," ","f","o","r"," ","t","h","e"," ","w","e","b">>,
      <<".",".",":"," ","d","o","t","s"," ","b","e","f","o","r","e"," ","a"," ","c","o","l","o","n">>,
      <<"P","h","o","t","o","s","y","n","t","h","e","s","i","s"," ","i","s"," ","t","h","e"," ","p","r","o","c","e","s","s">>,
      <<"I","n"," ","b","i","o","l","o","g","y",","," ","t","h","e"," ","c","e","l","l","s"," ","a","r","e"," ","s","m","a","l","l"," ","u","n","i","t","s">>,
      <<"A","P","I"," ","s","t","a","n","d","s"," ","f","o","r"," ","a","p","p","l","i","c","a","t","i","o","n"," ","p","r","o","g","r","a","m","m","i","n","g"," ","i","n","t","e","r","f","a","c","e">>,
      <<"H","e","l","l","o"," ","w","o","n","d","e","r","f","u","l"," ","w","o","r","l","d">>,
      <<"?","!","?","!","?","!","?","!","?","!","?","!">>,
      <<"t","i","n","y">> }

\* sentences whose question or answer is cut
LongSentences ==
    { <<"T","o","p","i","c"," ","i","s"," ">> \o Repeat("w", DeriveAnswerMax),
      Join(<<" ">>, [n \in 1..TopicWords |-> Repeat("v", 30)]) }

DeriveSentences ==
    {l \o b \o r : l \in LeftPads, b \in SentenceBodies, r \in RightPads} \cup LongSentences

InitDerive ==
    /\ call \in [fn : {"derive_qa"}, sentence : DeriveSentences]
    /\ ret = <<>>
    /\ GenIdle

CallDerive ==
    /\ call.fn = "derive_qa" /\ ret = <<>>
    /\ ret' = <<derive_qa(call.sentence)>>
    /\ UNCHANGED <<call, genVars>>

NextDerive == CallDerive

SpecDerive == InitDerive /\ [][NextDerive]_vars

-----------------------------------------------------------------------------
(* parse_json_array_lenient, utils.py:112-148: one call on a string.        *)

\* the longest run of complete objects drawn
MaxLenientItems == 2

\* complete objects: plain, with an empty answer, with brackets in a string,
\* with an array as a value
LenientItem(kind) ==
    CASE kind = "A" -> <<"{","\"","q","u","e","s","t","i","o","n","\"",":","\"","Q","5","\"",",","\"","a","n","s","w","e","r","\"",":","\"","A","5","\"",",","\"","t","a","g","s","\"",":","[","\"","t","\"","]","}">>
      [] OTHER -> ItemText(kind)
LenientKinds == {"P", "N", "R", "A"}

\* the start of one more object, cut before its end
ObjectTails ==
    { <<",","{","\"","q","u","e","s","t","i","o","n","\"",":","\"","Q","9","\"">>, <<",","{","\"","q","u","e","s","t","i","o","n","\"",":","\"","Q","9","\"",",","\"","a","n","s">>, <<","," ","{","\"","q","u","e","s","t","i","o","n","\"",":","\"","Q">>,
      <<",","{","\"","b","\"",":","[","2",",","3","]",",","\"","c">> }

LenientCut(kinds, tail) ==
    <<"[">> \o Join(<<",">>, [n \in 1..Len(kinds) |-> LenientItem(kinds[n])]) \o tail

\* strings that are no array cut inside an object
LenientOthers ==
    { NoneVal, <<>>, <<"n","o"," ","a","r","r","a","y"," ","h","e","r","e">>, <<"{","\"","q","u","e","s","t","i","o","n","\"",":","\"","Q","1","\"","}">>, <<"[">>, <<" "," ","["," ",","," ","]">>,
      <<"[","1",","," ","2">>, <<"x","]"," ","[","{","\"","a","\"",":","1","}",",","{","\"","b","\"">>, <<"[","{","\"","a","\"",":","1","}",",",",","{","\"","b","\"",":","2","}","x","{","\"","c","\"",":","3","}","]">>,
      <<"[","{","\"","a","\"",":","1","}"," ",";"," ","{","\"","b","\"",":","2","}","]">> }

InitLenient ==
    /\ call \in {[fn |-> "parse_json_array_lenient", s |-> LenientCut(kinds, tail),
                  cut |-> kinds]
                    : kinds \in SeqsUpTo(LenientKinds, MaxLenientItems) \ {<<>>},
                      tail \in ObjectTails}
                \cup {[fn |-> "parse_json_array_lenient", s |-> s, cut |-> <<>>]
                        : s \in LenientOthers}
    /\ ret = <<>>
    /\ GenIdle

CallLenient ==
    /\ call.fn = "parse_json_array_lenient" /\ ret = <<>>
    /\ ret' = <<parse_json_array_lenient(call.s)>>
    /\ UNCHANGED <<call, genVars>>

NextLenient == CallLenient

SpecLenient == InitLenient /\ [][NextLenient]_vars

-----------------------------------------------------------------------------
(* extract_last_json_array, utils.py:60-95: one call on a text.             *)

\* the longest text drawn from TextAtoms
MaxTextLen == 4

TextAtoms == {"[", "]", "{", "}", "x", " "}

\* responses of a model, whole and cut
ResponseTexts ==
    { NoneVal,
      <<"[","{","\"","q","u","e","s","t","i","o","n","\"",":","\"","Q","1","\"",",","\"","a","n","s","w","e","r","\"",":","\"","A","1","\"","}",",","{","\"","q","u","e","s","t","i","o","n","\"",":","\"","Q","2","\"">>,
      <<"[","{","\"","q","u","e","s","t","i","o","n","\"",":","\"","Q","1","\"",",","\"","a","n","s","w","e","r","\"",":","\"","A","1","\"","}","]">>,
      <<"H","e","r","e"," ","y","o","u"," ","g","o",":"," ","[","{","\"","q","u","e","s","t","i","o","n","\"",":","\"","Q","1","\"",",","\"","a","n","s","w","e","r","\"",":","\"","A","1","\"","}",","," ","{","\"","q","u","e","s","t","i","o","n","\"",":","\"","Q">>,
      <<"[","{","\"","a","\"",":","\"","}","\"","}",",","{","\"","b">>,
      <<"[","{","\"","a","\"",":","{","\"","b","\"",":","{","\"","c","\"",":","1">>,
      <<"n","o"," ","a","r","r","a","y"," ","a","t"," ","a","l","l">>,
      <<"]"," ","c","l","o","s","e","d"," ","b","e","f","o","r","e"," ","[","{","\"","a","\"",":","1","}",",","{","\"","b","\"">> }

InitExtract ==
    /\ call \in [fn : {"extract_last_json_array"},
                 t : SeqsUpTo(TextAtoms, MaxTextLen) \cup ResponseTexts]
    /\ ret = <<>>
    /\ GenIdle

CallExtract ==
    /\ call.fn = "extract_last_json_array" /\ ret = <<>>
    /\ ret' = <<extract_last_json_array(call.t)>>
    /\ UNCHANGED <<call, genVars>>

NextExtract == CallExtract

SpecExtract == InitExtract /\ [][NextExtract]_vars

-----------------------------------------------------------------------------
(* Properties of assign_options_random and _fallback_flashcards *)

\* slot k (1..4) of a card or of an options dict
OptionAt(c, k) ==
    CASE k = 1 -> c.option_a [] k = 2 -> c.option_b [] k = 3 -> c.option_c [] k = 4 -> c.option_d

\* the slot a correct_option names, 0 when it names none
SlotOf(letter) ==
    IF \E k \in 1..4 : letter = <<Letters[k]>>
    THEN CHOOSE k \in 1..4 : letter = <<Letters[k]>> ELSE 0

IsBlank(w) == \A i \in 1..Len(w) : w[i] \in SpaceSet

\* entry j of: wrongs without its empty and whitespace-only entries, padded
\* with "Option"
ExpectedWrong(wrongs, j) ==
    LET kept == {i \in 1..Len(wrongs) : ~IsBlank(wrongs[i])}
        upTo(i) == Cardinality({m \in kept : m <= i})
    IN  IF j <= Cardinality(kept) THEN wrongs[CHOOSE i \in kept : upTo(i) = j]
        ELSE <<"O","p","t","i","o","n">>

AssignReturned == call.fn = "assign_options_random" /\ ret # <<>>

\* C7: assign_options_random returns four filled slots of which exactly one
\* equals the correct answer, whatever the wrongs list holds.
C7_ExactlyOneSlotIsCorrect ==
    AssignReturned =>
        /\ \A k \in 1..4 : OptionAt(ret[1], k) # <<>>
        /\ Cardinality({k \in 1..4 : OptionAt(ret[1], k) = call.correct}) = 1

\* C8: correct_option is the letter of the slot holding the correct answer, and
\* the three other slots, read from A to D, hold the first three entries of
\* the wrongs list without its blank entries, padded with "Option".
C8_LetterAndWrongOrder ==
    AssignReturned =>
        LET o == ret[1]
            k0 == SlotOf(o.correct_option)
        IN  /\ k0 \in 1..4
            /\ OptionAt(o, k0) = call.correct
            /\ \A k \in 1..4 : k # k0 =>
                  OptionAt(o, k) = ExpectedWrong(call.wrongs, IF k < k0 THEN k ELSE k - 1)

\* the correct answer went to slot C, a blank wrong was dropped and the three
\* wrongs left filled A, B and D in order, none padded
C8_Witness ==
    /\ AssignReturned
    /\ ret[1].correct_option = <<"C">>
    /\ call.wrongs = <<<<"W">>, <<" ">>, <<"O","p","t","i","o","n">>, <<"A","1">>>>
    /\ ret[1].option_a = <<"W">> /\ ret[1].option_d = <<"A","1">>

FallbackReturned == call.fn = "_fallback_flashcards" /\ ret # <<>>

IsGeneric(c) == c.question = GenericQuestion /\ c.answer = GenericAnswer

\* the (question, answer) pairs of the sentences that derive_qa accepts, in
\* sentence order
DerivedPairs(cleaned) ==
    LET sentences == ReSplit(SentenceEndPattern, cleaned)
        pairs == [n \in 1..Len(sentences) |-> derive_qa(sentences[n])]
        Accepted(qa) == qa # NoneVal
    IN  SelectSeq(pairs, Accepted)

WellFormedMCQ(c) ==
    /\ c.question # <<>> /\ c.answer # <<>>
    /\ \A k \in 1..4 : OptionAt(c, k) # <<>>
    /\ SlotOf(c.correct_option) \in 1..4

\* C6: for non-empty text and limit >= 1, _fallback_flashcards returns exactly
\* limit cards, the sentence cards in sentence order first and the generic
\* cards after them; every card is a complete MCQ whose correct_option slot
\* holds the card's correct phrase.
C6_FallbackExactlyLimit ==
    (FallbackReturned /\ call.cleaned # <<>>) =>
        LET cards == ret[1]
            pairs == DerivedPairs(call.cleaned)
        IN  /\ Len(cards) = call.limit
            /\ \A n \in 1..Len(cards) :
                  /\ WellFormedMCQ(cards[n])
                  /\ IF n <= Len(pairs)
                     THEN /\ cards[n].question = pairs[n][1]
                          /\ cards[n].answer = pairs[n][2]
                          /\ OptionAt(cards[n], SlotOf(cards[n].correct_option))
                                = correct_phrase(cards[n].answer)
                     ELSE /\ IsGeneric(cards[n])
                          /\ OptionAt(cards[n], SlotOf(cards[n].correct_option))
                                = generic_correct(generic_words(call.cleaned))

\* one sentence card followed by two generic cards
C6_Witness ==
    /\ FallbackReturned /\ call.limit = 3
    /\ Len(DerivedPairs(call.cleaned)) = 1
    /\ Len(ret[1]) = 3
    /\ ~IsGeneric(ret[1][1]) /\ IsGeneric(ret[1][2]) /\ IsGeneric(ret[1][3])

-----------------------------------------------------------------------------
(* Properties of generate_flashcards_with_ai *)

Done == pc = "done"

\* the lines that return _fallback_flashcards(cleaned_text) after the
\* external path was entered
FailureLines == {341, 351, 357, 372, 426, 434}

\* C1: the returned list is empty if and only if the whitespace-normalized
\* text is empty, whatever the configuration and the outcome of the call.
C1_EmptyOnlyForEmptyText ==
    Done => ((result = <<>>) <=> (clean_text(text) = <<>>))

\* a response without a valid item was answered with cards
C1_Witness ==
    /\ Done /\ clean_text(text) # <<>> /\ run_calls = 1 /\ ret_line = 426
    /\ Len(result) >= 1

\* C2: every returned card is well formed: a non-empty question and answer
\* and, as every card the function builds carries the option fields (lines
\* 411-415 and 422), four non-empty options and a correct_option in A-D.
C2_CardsWellFormed ==
    Done => \A n \in 1..Len(result) : WellFormedMCQ(result[n])

\* the state the function is in fails the external path: an exception was
\* raised, the output reports an error, the content is empty, no array is
\* found in it, both parses yield nothing, or no item is valid
FailsNow ==
    \/ pc = "except"
    \/ pc = "shape" /\ (reports_error(output) \/ ~Truthy(content_of(output)))
    \/ pc = "extract" /\ content.t = "str"
          /\ extract_last_json_array(content.v) \in {NoneVal, <<>>}
    \/ pc = "parse" /\ parsed_batch(json_string) = <<>>
    \/ pc = "validate" /\ ~loop_raises(flashcards)
          /\ \A n \in 1..Len(Prefix(flashcards, BatchMax)) : ~is_valid_item(flashcards[n])

\* C3: every failure of the external path ends, in the next step, with the
\* return of exactly 3 MCQ cards from one of the lines that return
\* _fallback_flashcards(cleaned_text); what these lines return is a result of
\* _fallback_flashcards for the cleaned text and limit 3, as on the
\* no-credential path; a raised exception is handled, never passed on.
C3_FailuresEndInFallback ==
    /\ [][FailsNow =>
            /\ pc' = "done" /\ ret_line' \in FailureLines
            /\ Len(result') = 3
            /\ \A n \in 1..Len(result') : WellFormedMCQ(result'[n])]_vars
    /\ [](Done /\ ret_line \in (FailureLines \cup {312}) =>
            result \in _fallback_flashcards(clean_text(text), 3))

\* the call raised and the handler returned three cards
C3_Witness ==
    /\ Done /\ run_calls = 1 /\ ret_line = 434 /\ Len(result) = 3

\* C4: model.run is invoked at most once in a run, and not at all when the
\* cleaned text is empty or the API key or the Bytez client is absent.
C4_AtMostOneRun ==
    call.fn = "generate_flashcards_with_ai" =>
        /\ run_calls <= 1
        /\ (clean_text(text) = <<>> \/ ~api_key \/ ~Bytez) => run_calls = 0

\* the one invocation reported an error and the fallback answered
C4_Witness ==
    /\ Done /\ run_calls = 1 /\ ret_line = 341 /\ result # <<>>

\* C5: the returned list never has more than 3 cards.
C5_AtMostThreeCards ==
    Done => Len(result) <= 3

\* C9: when the content is an array cut after k >= 1 complete objects with a
\* question and an answer, the first k returned cards carry the questions and
\* answers of these objects.
C9_TruncatedPrefixRecovered ==
    [][(pc' = "done" /\ output.cut # <<>>) =>
            /\ Len(result') >= Len(output.cut)
            /\ \A n \in 1..Len(output.cut) :
                  /\ result'[n].question = ItemQuestion(output.cut[n])
                  /\ result'[n].answer = ItemAnswer(output.cut[n])]_vars

\* C10: when the parsed batch holds an invalid item and a valid one among its
\* first 10 entries, every valid item among them appears in the result, in
\* batch order.
C10_ValidItemsSurvive ==
    [][(/\ pc' = "done"
        /\ \E n \in 1..Len(Prefix(flashcards, BatchMax)) : ~is_valid_item(flashcards[n])
        /\ \E n \in 1..Len(Prefix(flashcards, BatchMax)) : is_valid_item(flashcards[n])) =>
            LET kept == SelectSeq(Prefix(flashcards, BatchMax), is_valid_item)
            IN  /\ Len(result') >= Len(kept)
                /\ \A n \in 1..Len(kept) :
                      /\ result'[n].question = PyStr(item_question(kept[n]))
                      /\ result'[n].answer = PyStr(item_answer(kept[n]))]_vars

\* C11: every returned card keeps the length bounds: the question at most 255
\* characters, the answer at most 1000 (at most 300 when the cards come from
\* the heuristic), every option at most 255 and correct_option one character.
C11_LengthBounds ==
    Done => \A n \in 1..Len(result) :
        /\ Len(result[n].question) <= QuestionMax
        /\ Len(result[n].answer) <= (IF ret_line \in (FailureLines \cup {312})
                                     THEN DeriveAnswerMax ELSE AnswerMax)
        /\ \A k \in 1..4 : Len(OptionAt(result[n], k)) <= OptionMax
        /\ Len(result[n].correct_option) = 1

\* C12 as claimed: _fallback_flashcards called with empty text and the default
\* limit of 3 returns the empty list.
C12_EmptyTextNoCards ==
    (FallbackReturned /\ call.cleaned = <<>> /\ call.limit = DefaultLimit) => ret[1] = <<>>

\* the wrong options of the generic cards of a text without words, line 276
EmptyTextWrongs == <<<<"C","o","n","c","e","p","t">>, <<"P","r","o","c","e","s","s">>, <<"C","o","m","p","o","n","e","n","t">>, <<"P","r","o","t","o","c","o","l">>, <<"D","a","t","a","s","e","t">>, <<"M","e","t","h","o","d">>>>

\* C12 as amended: _fallback_flashcards called with empty text and the default
\* limit of 3 returns 3 generic cards; in each the correct_option slot holds
\* "Key concept from the text" and the three other slots hold, in order, three
\* consecutive entries of the default pool, starting one entry later for each
\* card.
C12_EmptyTextGenericCards ==
    (FallbackReturned /\ call.cleaned = <<>> /\ call.limit = DefaultLimit) =>
        /\ Len(ret[1]) = DefaultLimit
        /\ \A n \in 1..Len(ret[1]) :
              LET c == ret[1][n]
                  k0 == SlotOf(c.correct_option)
              IN  /\ IsGeneric(c)
                  /\ k0 \in 1..4
                  /\ OptionAt(c, k0) = <<"K","e","y"," ","c","o","n","c","e","p","t"," ","f","r","o","m"," ","t","h","e"," ","t","e","x","t">>
                  /\ \A k \in 1..4 : k # k0 =>
                        OptionAt(c, k) =
                            EmptyTextWrongs[((n - 1 + (IF k < k0 THEN k ELSE k - 1) - 1) % 6) + 1]

\* the third card of the empty text, its correct option drawn into slot D
C12_Witness ==
    /\ FallbackReturned /\ call.cleaned = <<>> /\ call.limit = DefaultLimit
    /\ Len(ret[1]) = 3
    /\ ret[1][3].correct_option = <<"D">>
    /\ ret[1][3].option_a = <<"C","o","m","p","o","n","e","n","t">> /\ ret[1][3].option_c = <<"D","a","t","a","s","e","t">>

DeriveReturned == call.fn = "derive_qa" /\ ret # <<>>

\* what C13 promises of a result: a (question, answer) pair within the cuts
IsCutPair(r) ==
    /\ r # NoneVal /\ Len(r) = 2
    /\ Len(r[1]) <= DeriveQuestionMax /\ Len(r[2]) <= DeriveAnswerMax

\* C13 as claimed: for every sentence of at least 10 characters, leading and
\* trailing whitespace included, derive_qa returns a (question, answer) pair,
\* never None, the question at most 120 and the answer at most 300 characters.
C13_TotalFromTenChars ==
    (DeriveReturned /\ Len(call.sentence) >= DeriveMinLen) => IsCutPair(ret[1])

\* the characters of s without its leading and trailing whitespace
StrippedLen(s) ==
    LET inked == {i \in 1..Len(s) : s[i] \notin SpaceSet}
    IN  IF inked = {} THEN 0
        ELSE (CHOOSE i \in inked : \A j \in inked : j <= i)
                - (CHOOSE i \in inked : \A j \in inked : i <= j) + 1

\* C13 as amended: for every sentence of at least 10 characters after its
\* leading and trailing whitespace is stripped, derive_qa returns a
\* (question, answer) pair, never None, the question at most 120 and the
\* answer at most 300 characters; for a shorter one it returns None.
C13_TotalFromTenStripped ==
    DeriveReturned =>
        IF StrippedLen(call.sentence) >= DeriveMinLen THEN IsCutPair(ret[1])
        ELSE ret[1] = NoneVal

\* a padded sentence that none of the four rules matches and that holds no
\* word got its pair from the last rule
C13_Witness ==
    /\ DeriveReturned
    /\ call.sentence = <<"\t"," ","?","!","?","!","?","!","?","!","?","!","?","!"," ","\n">>
    /\ ret[1] = <<<<"W","h","a","t"," ","i","s"," ","T","h","i","s"," ","t","o","p","i","c","?">>, <<"?","!","?","!","?","!","?","!","?","!","?","!">>>>

\* C14: when the loop ends with v valid cards, 1 <= v < 3, the function
\* returns exactly 3 cards: the v validated cards, in batch order, and after
\* them the 3 - v cards of _fallback_flashcards(cleaned_text, limit = 3 - v);
\* with v >= 3 it returns the validated cards and no heuristic card.
C14_TopUpToThree ==
    [][(pc = "topup" /\ pc' = "done") =>
            LET kept == SelectSeq(Prefix(flashcards, BatchMax), is_valid_item)
                v == Len(kept)
            IN  /\ v >= 1 /\ v = Len(valid) /\ Len(result') >= v
                /\ SubSeq(result', 1, v) = valid
                /\ \A n \in 1..v :
                      /\ result'[n].question = Prefix(PyStr(item_question(kept[n])), QuestionMax)
                      /\ result'[n].answer = Prefix(PyStr(item_answer(kept[n])), AnswerMax)
                /\ IF v < 3
                   THEN /\ Len(result') = 3
                        /\ SubSeq(result', v + 1, 3)
                              \in _fallback_flashcards(clean_text(text), 3 - v)
                   ELSE Len(result') = v]_vars

\* one valid item: its card, then the sentence card and one generic card of
\* the heuristic
C14_Witness ==
    /\ Done /\ ret_line = 431 /\ Len(result) = 3
    /\ result[1].question = <<"Q","1">>
    /\ result[2].question = <<"W","h","a","t"," ","a","r","e"," ","C","a","t","s","?">>
    /\ IsGeneric(result[3])

LenientReturned == call.fn = "parse_json_array_lenient" /\ ret # <<>>

\* C15: parse_json_array_lenient returns the elements that decode, in order,
\* up to the first that does not: for an array of k complete objects followed
\* by a truncated object exactly those k objects, and None (no item) when the
\* string has no '['.
C15_LenientKeepsCompleteObjects ==
    LenientReturned =>
        /\ (call.s = NoneVal \/ \A i \in 1..Len(call.s) : call.s[i] # "[") => ret[1] = <<>>
        /\ call.cut # <<>> =>
              ret[1] = [n \in 1..Len(call.cut) |-> json_loads(LenientItem(call.cut[n])).val]

ExtractReturned == call.fn = "extract_last_json_array" /\ ret # <<>>

\* the positions of c in t
PositionsOf(t, c) == {i \in 1..Len(t) : t[i] = c}

\* t holds a '[' and no ']' after its first '['
OpenOnly(t) ==
    /\ t # NoneVal /\ PositionsOf(t, "[") # {}
    /\ \A j \in PositionsOf(t, "]") : \A i \in PositionsOf(t, "[") : j < i

\* r starts with '[' and its only ']' is its last character
ClosedOnce(r) ==
    /\ r # NoneVal /\ r # <<>>
    /\ r[1] = "[" /\ PositionsOf(r, "]") = {Len(r)}

NoneExactlyWithoutBracket ==
    (ret[1] = NoneVal) <=> (call.t = NoneVal \/ PositionsOf(call.t, "[") = {})

\* C16 as claimed: for a text with a '[' and no ']' after it the function
\* returns a string that starts with '[', ends with exactly one ']' and holds
\* as many '}' as '{'; it returns None exactly when the text is empty or
\* holds no '['.
C16_SalvageBalanced ==
    ExtractReturned =>
        /\ NoneExactlyWithoutBracket
        /\ OpenOnly(call.t) =>
              /\ ClosedOnce(ret[1])
              /\ Cardinality(PositionsOf(ret[1], "}")) = Cardinality(PositionsOf(ret[1], "{"))

\* the part of t from its first '[' on
FromBracket(t) ==
    SubSeq(t, CHOOSE i \in PositionsOf(t, "[") : \A j \in PositionsOf(t, "[") : i <= j, Len(t))

\* C16 as amended: for a text with a '[' and no ']' after it the function
\* returns a string that starts with '[', ends with exactly one ']' and holds
\* at least as many '}' as '{', exactly as many when the text from its first
\* '[' on holds fewer '}' than '{'; it returns None exactly when the text is
\* empty or holds no '['.
C16_SalvageClosed ==
    ExtractReturned =>
        /\ NoneExactlyWithoutBracket
        /\ OpenOnly(call.t) =>
              /\ ClosedOnce(ret[1])
              /\ Cardinality(PositionsOf(ret[1], "}")) >= Cardinality(PositionsOf(ret[1], "{"))
              /\ Cardinality(PositionsOf(FromBracket(call.t), "}"))
                    < Cardinality(PositionsOf(FromBracket(call.t), "{"))
                 => Cardinality(PositionsOf(ret[1], "}"))
                        = Cardinality(PositionsOf(ret[1], "{"))

\* a response cut inside its second object was closed with '}' and ']'
C16_Witness ==
    /\ ExtractReturned
    /\ call.t = <<"[","{","\"","q","u","e","s","t","i","o","n","\"",":","\"","Q","1","\"",",","\"","a","n","s","w","e","r","\"",":","\"","A","1","\"","}",",","{","\"","q","u","e","s","t","i","o","n","\"",":","\"","Q","2","\"">>
    /\ ret[1] = <<"[","{","\"","q","u","e","s","t","i","o","n","\"",":","\"","Q","1","\"",",","\"","a","n","s","w","e","r","\"",":","\"","A","1","\"","}",",","{","\"","q","u","e","s","t","i","o","n","\"",":","\"","Q","2","\"","}","]">>

====
